---- MODULE Spec2Model ----
(***************************************************************************)
(* Router-Worker swarm of dashboard_bot/src/swarm.py: the MessageBus, the  *)
(* RouterAgent (analyze_and_delegate, synthesize_results), the worker      *)
(* agents and SwarmOrchestrator.execute / reset; and the tools:            *)
(* write_daily_note of tools/obsidian_tools.py on a vault, the mail fetch  *)
(* of tools/email_tools.py and of DataCollector in agent.py, the Jira      *)
(* searches of tools/jira_tools.py, and the SecureEmailClient of           *)
(* utis/secure_email_client.py.                                            *)
(*                                                                         *)
(* Text is a sequence of one-character strings, so that lower(), the `in`  *)
(* substring test, slicing and f-string formatting are computed character  *)
(* by character as Python computes them.                                   *)
(***************************************************************************)
EXTENDS Integers, Sequences, FiniteSets, TLC

VARIABLES
    messages,      \* MessageBus.messages
    now,           \* the wall clock read by datetime.now()
    workers,       \* SwarmOrchestrator.workers: name -> agent class
    history,       \* BaseAgent.history of the router and of every worker
    pc,            \* position of the caller inside SwarmOrchestrator.execute
    user_task,     \* execute: the user_task argument
    delegations,   \* execute: the delegation plan
    results,       \* execute: the results list
    idx,           \* execute: the loop counter i (from 1)
    agent_name,    \* execute: delegation['agent']; get_context_for: its argument
    context,       \* the list get_context_for returned
    refs,          \* which list and which dicts of the log that list holds
    final_result,  \* execute: the report
    settings,      \* config.settings: the fields the tools read
    MSAL_AVAILABLE,\* email_tools.MSAL_AVAILABLE: the msal import succeeded
    vault,         \* the Obsidian vault on disk
    graph,         \* what the last tool call did on the network: sign-in calls, queries
    returned,      \* the value the last tool call returned
    environ,       \* os.environ: the variables SecureEmailClient reads
    client         \* the SecureEmailClient object, once constructed

\* the state of the swarm
swarm_vars == <<messages, now, workers, history, pc, user_task, delegations,
                results, idx, agent_name, context, refs, final_result>>

\* the state the tools work on
tool_vars == <<settings, MSAL_AVAILABLE, vault, graph, returned, environ,
               client>>

vars == <<messages, now, workers, history, pc, user_task, delegations, results,
          idx, agent_name, context, refs, final_result, settings,
          MSAL_AVAILABLE, vault, graph, returned, environ, client>>

------------------------------------------------------------------------------
(* Bounds of the model *)

\* longest request, in words of Words
MaxWords == 2

\* execute is called again only while the log is shorter than this
MaxLog == 3

\* last instant of the clock
MaxClock == 1

\* longest log built by direct MessageBus.send calls
MaxBusLen == 3

\* longest delegations and results lists given directly to synthesize_results
MaxPairs == 2

\* the longest result given to synthesize_results exceeds the cut by this much
MaxExtra == 2

------------------------------------------------------------------------------
(* Text *)

UpperCase ==
    <<"A", "B", "C", "D", "E", "F", "G", "H", "I", "J", "K", "L", "M",
      "N", "O", "P", "Q", "R", "S", "T", "U", "V", "W", "X", "Y", "Z">>

LowerCase ==
    <<"a", "b", "c", "d", "e", "f", "g", "h", "i", "j", "k", "l", "m",
      "n", "o", "p", "q", "r", "s", "t", "u", "v", "w", "x", "y", "z">>

LowerChar(c) ==
    IF \E k \in 1..26 : UpperCase[k] = c
    THEN LowerCase[CHOOSE k \in 1..26 : UpperCase[k] = c]
    ELSE c

UpperChar(c) ==
    IF \E k \in 1..26 : LowerCase[k] = c
    THEN UpperCase[CHOOSE k \in 1..26 : LowerCase[k] = c]
    ELSE c

\* str.lower()
Lower(s) == [k \in 1..Len(s) |-> LowerChar(s[k])]

\* str.upper()
Upper(s) == [k \in 1..Len(s) |-> UpperChar(s[k])]

\* str.capitalize(): first character upper-cased, the rest lower-cased
Capitalize(s) ==
    [k \in 1..Len(s) |-> IF k = 1 THEN UpperChar(s[k]) ELSE LowerChar(s[k])]

\* needle in hay
Contains(hay, needle) ==
    \E k \in 1..(Len(hay) - Len(needle) + 1) :
        SubSeq(hay, k, k + Len(needle) - 1) = needle

Digit == <<"0", "1", "2", "3", "4", "5", "6", "7", "8", "9">>

RECURSIVE IntToStr(_)
\* str(n) of a natural number, as the f-string formats the step number
IntToStr(n) ==
    IF n < 10 THEN <<Digit[n + 1]>>
    ELSE IntToStr(n \div 10) \o <<Digit[(n % 10) + 1]>>

RECURSIVE Join(_, _)
\* sep.join(parts)
Join(parts, sep) ==
    IF parts = <<>> THEN <<>>
    ELSE IF Len(parts) = 1 THEN parts[1]
    ELSE parts[1] \o sep \o Join(Tail(parts), sep)

TrigJira ==
    <<"j", "i", "r", "a">>

TrigTask ==
    <<"t", "a", "s", "k">>

TrigTicket ==
    <<"t", "i", "c", "k", "e", "t">>

TrigEmail ==
    <<"e", "m", "a", "i", "l">>

TrigOutlook ==
    <<"o", "u", "t", "l", "o", "o", "k">>

TrigMail ==
    <<"m", "a", "i", "l">>

TrigNote ==
    <<"n", "o", "t", "e">>

TrigObsidian ==
    <<"o", "b", "s", "i", "d", "i", "a", "n">>

TrigDaily ==
    <<"d", "a", "i", "l", "y">>

NameRouter ==
    <<"r", "o", "u", "t", "e", "r">>

NameCoder ==
    <<"c", "o", "d", "e", "r">>

NameReviewer ==
    <<"r", "e", "v", "i", "e", "w", "e", "r">>

NameResearcher ==
    <<"r", "e", "s", "e", "a", "r", "c", "h", "e", "r">>

JiraTask ==
    <<"Q", "u", "e", "r", "y", " ", "J", "i", "r", "a", " ", "f", "o", "r", " ", "c", "r", "i",
      "t", "i", "c", "a", "l", " ", "a", "l", "e", "r", "t", "s", " ", "a", "n", "d", " ", "p",
      "e", "n", "d", "i", "n", "g", " ", "t", "a", "s", "k", "s">>

MailTask ==
    <<"F", "e", "t", "c", "h", " ", "a", "n", "d", " ", "s", "u", "m", "m", "a", "r", "i", "z",
      "e", " ", "r", "e", "c", "e", "n", "t", " ", "u", "n", "r", "e", "a", "d", " ", "e", "m",
      "a", "i", "l", "s">>

NoteTask ==
    <<"C", "r", "e", "a", "t", "e", " ", "o", "r", " ", "u", "p", "d", "a", "t", "e", " ", "t",
      "h", "e", " ", "d", "a", "i", "l", "y", " ", "n", "o", "t", "e", " ", "w", "i", "t", "h",
      " ", "g", "a", "t", "h", "e", "r", "e", "d", " ", "i", "n", "f", "o", "r", "m", "a", "t",
      "i", "o", "n">>

CoderPrefix ==
    <<"[", "C", "o", "d", "e", "r", "]", " ", "E", "x", "e", "c", "u", "t", "e", "d", " ", "t",
      "a", "s", "k", ":", " ">>

ResearcherPrefix ==
    <<"[", "R", "e", "s", "e", "a", "r", "c", "h", "e", "r", "]", " ", "G", "a", "t", "h", "e",
      "r", "e", "d", " ", "i", "n", "f", "o", "r", "m", "a", "t", "i", "o", "n", " ", "f", "o",
      "r", ":", " ">>

ReviewerPrefix ==
    <<"[", "R", "e", "v", "i", "e", "w", "e", "r", "]", " ", "R", "e", "v", "i", "e", "w", "e",
      "d", ":", " ">>

UnknownPrefix ==
    <<"E", "r", "r", "o", "r", ":", " ", "U", "n", "k", "n", "o", "w", "n", " ", "a", "g", "e",
      "n", "t", " ", "'">>

Quote ==
    <<"'">>

SummaryHeader ==
    <<"#", "#", " ", "T", "a", "s", "k", " ", "S", "u", "m", "m", "a", "r", "y", "\n">>

StepPrefix ==
    <<"#", "#", "#", " ", "S", "t", "e", "p", " ">>

ColonSpace ==
    <<":", " ">>

TaskLabel ==
    <<"*", "*", "T", "a", "s", "k", ":", "*", "*", " ">>

ResultLabel ==
    <<"*", "*", "R", "e", "s", "u", "l", "t", ":", "*", "*", " ">>

Ellipsis ==
    <<".", ".", ".">>

Newline ==
    <<"\n">>

\* result[:500] and len(result) > 500
TruncateAt == 500

------------------------------------------------------------------------------
(* MessageBus *)

\* MessageBus.send: the log with the new message appended
send(log, from_agent, to_agent, message_type, content, stamp) ==
    Append(log, [from |-> from_agent, to |-> to_agent, type |-> message_type,
                 content |-> content, timestamp |-> stamp])

\* the filter with the sender forgotten
RelevantToReceiverOnly(msg, name) == msg["to"] = name

\* the filter of get_context_for's list comprehension
RelevantTo(msg, name) == msg["to"] = name \/ msg["from"] = name

\* MessageBus.get_context_for
get_context_for(log, name) ==
    LET Keep(msg) == RelevantTo(msg, name) IN SelectSeq(log, Keep)

\* MessageBus.get_all_messages
get_all_messages(log) == [k \in 1..Len(log) |-> log[k]]

\* clear with the log left as it was
clear_nothing(log) == log

\* MessageBus.clear
clear(log) == <<>>

\* the places of the log, in order
Places(log) == [k \in 1..Len(log) |-> k]

\* a list the caller holds: whether it is the list object self.messages, and
\* for each element the place in the log of the dict object it is (0 when that
\* dict is not in the log)
Held(same_list, places) == [same_list |-> same_list, places |-> places]

\* the caller holds no list
NoRefs == Held(FALSE, <<>>)

\* get_context_for: the comprehension builds a new list; its elements are the
\* dict objects of the log that pass the filter
context_refs(log, name) ==
    LET Keep(k) == RelevantTo(log[k], name)
    IN  Held(FALSE, SelectSeq(Places(log), Keep))

\* get_all_messages returning self.messages itself
all_refs_uncopied(log) == Held(TRUE, Places(log))

\* get_all_messages: list.copy() builds a new list of the same dict objects
all_refs(log) == Held(FALSE, Places(log))

------------------------------------------------------------------------------
(* RouterAgent *)

Delegation(agent, task) == [agent |-> agent, task |-> task]

JiraRow(task_lower) ==
    \/ Contains(task_lower, TrigJira)
    \/ Contains(task_lower, TrigTask)
    \/ Contains(task_lower, TrigTicket)

MailRow(task_lower) ==
    \/ Contains(task_lower, TrigEmail)
    \/ Contains(task_lower, TrigOutlook)
    \/ Contains(task_lower, TrigMail)

NoteRow(task_lower) ==
    \/ Contains(task_lower, TrigNote)
    \/ Contains(task_lower, TrigObsidian)
    \/ Contains(task_lower, TrigDaily)

\* the fallback delegation given the lower-cased request
analyze_and_delegate_lowered(task) ==
    LET task_lower == Lower(task)
        d1 == IF JiraRow(task_lower)
              THEN <<Delegation(NameResearcher, JiraTask)>> ELSE <<>>
        d2 == IF MailRow(task_lower)
              THEN Append(d1, Delegation(NameResearcher, MailTask)) ELSE d1
        d3 == IF NoteRow(task_lower)
              THEN Append(d2, Delegation(NameCoder, NoteTask)) ELSE d2
    IN  IF d3 = <<>> THEN <<Delegation(NameCoder, task_lower)>> ELSE d3

\* the mail row tested before the issue-tracker row
analyze_and_delegate_mail_first(task) ==
    LET task_lower == Lower(task)
        d1 == IF MailRow(task_lower)
              THEN <<Delegation(NameResearcher, MailTask)>> ELSE <<>>
        d2 == IF JiraRow(task_lower)
              THEN Append(d1, Delegation(NameResearcher, JiraTask)) ELSE d1
        d3 == IF NoteRow(task_lower)
              THEN Append(d2, Delegation(NameCoder, NoteTask)) ELSE d2
    IN  IF d3 = <<>> THEN <<Delegation(NameCoder, task)>> ELSE d3

\* the rows tested against the request as typed, lower() forgotten
analyze_and_delegate_cased(task) ==
    LET d1 == IF JiraRow(task)
              THEN <<Delegation(NameResearcher, JiraTask)>> ELSE <<>>
        d2 == IF MailRow(task)
              THEN Append(d1, Delegation(NameResearcher, MailTask)) ELSE d1
        d3 == IF NoteRow(task)
              THEN Append(d2, Delegation(NameCoder, NoteTask)) ELSE d2
    IN  IF d3 = <<>> THEN <<Delegation(NameCoder, task)>> ELSE d3

\* RouterAgent.analyze_and_delegate
analyze_and_delegate(task) ==
    LET task_lower == Lower(task)
        d1 == IF JiraRow(task_lower)
              THEN <<Delegation(NameResearcher, JiraTask)>> ELSE <<>>
        d2 == IF MailRow(task_lower)
              THEN Append(d1, Delegation(NameResearcher, MailTask)) ELSE d1
        d3 == IF NoteRow(task_lower)
              THEN Append(d2, Delegation(NameCoder, NoteTask)) ELSE d2
    IN  IF d3 = <<>> THEN <<Delegation(NameCoder, task)>> ELSE d3

\* the ellipsis added from 500 characters on (>= for >)
TruncatedInclusive(result) ==
    SubSeq(result, 1, IF Len(result) < TruncateAt THEN Len(result) ELSE TruncateAt)
        \o (IF Len(result) >= TruncateAt THEN Ellipsis ELSE <<>>)

\* result[:500] followed by '...' when len(result) > 500
Truncated(result) ==
    SubSeq(result, 1, IF Len(result) < TruncateAt THEN Len(result) ELSE TruncateAt)
        \o (IF Len(result) > TruncateAt THEN Ellipsis ELSE <<>>)

\* the three parts appended for pair number i
StepParts(i, delegation, result) ==
    << StepPrefix \o IntToStr(i) \o ColonSpace \o Capitalize(delegation.agent),
       TaskLabel \o delegation.task,
       ResultLabel \o Truncated(result) \o Newline >>

RECURSIVE SynthesisPartsShort(_, _, _)
\* the loop stopping one pair early
SynthesisPartsShort(i, dels, res) ==
    IF i >= Len(dels) \/ i >= Len(res) THEN <<>>
    ELSE StepParts(i, dels[i], res[i]) \o SynthesisPartsShort(i + 1, dels, res)

RECURSIVE SynthesisPartsReversed(_, _, _)
\* the loop pairing delegation i with the i-th result from the end
SynthesisPartsReversed(i, dels, res) ==
    IF i > Len(dels) \/ i > Len(res) THEN <<>>
    ELSE StepParts(i, dels[i], res[Len(res) + 1 - i])
            \o SynthesisPartsReversed(i + 1, dels, res)

RECURSIVE SynthesisParts(_, _, _)
\* the parts of pairs i .. min(len(delegations), len(results)), as zip pairs them
SynthesisParts(i, dels, res) ==
    IF i > Len(dels) \/ i > Len(res) THEN <<>>
    ELSE StepParts(i, dels[i], res[i]) \o SynthesisParts(i + 1, dels, res)

\* RouterAgent.synthesize_results
synthesize_results(dels, res) ==
    Join(<<SummaryHeader>> \o SynthesisParts(1, dels, res), Newline)

------------------------------------------------------------------------------
(* Worker agents *)

AgentClasses ==
    {"CoderAgent", "ReviewerAgent", "ResearcherAgent", "BaseAgent", "StubAgent"}

\* what the researcher of a test returns in place of a query of Jira
StubResult ==
    <<"3", " ", "t", "a", "s", "k", "s", " ", "f", "o", "u", "n", "d">>

\* BaseAgent.execute raises NotImplementedError; the subclasses override it
Raises(class) == class = "BaseAgent"

\* workers whose answer tells how many messages their context holds
WorkerExecuteCounting(class, task, ctx) ==
    CASE class = "CoderAgent"      -> CoderPrefix \o task \o IntToStr(Len(ctx))
      [] class = "ResearcherAgent" -> ResearcherPrefix \o task \o IntToStr(Len(ctx))
      [] class = "ReviewerAgent"   -> ReviewerPrefix \o task \o IntToStr(Len(ctx))
      [] class = "StubAgent"       -> StubResult

\* CoderAgent.execute, ResearcherAgent.execute, ReviewerAgent.execute
WorkerExecute(class, task, ctx) ==
    CASE class = "CoderAgent"      -> CoderPrefix \o task
      [] class = "ResearcherAgent" -> ResearcherPrefix \o task
      [] class = "ReviewerAgent"   -> ReviewerPrefix \o task
      [] class = "StubAgent"       -> StubResult

------------------------------------------------------------------------------
(* Requests *)

WordJira ==
    <<"J", "i", "r", "a">>

WordMail ==
    <<"e", "M", "A", "I", "L">>

WordNote ==
    <<"N", "O", "T", "E">>

WordX ==
    <<"X">>

WordAll ==
    <<"D", "a", "i", "l", "y", " ", "T", "i", "c", "k", "e", "t", "s", " ", "f", "r", "o", "m",
      " ", "O", "u", "t", "l", "o", "o", "k">>

\* one word per table row, one that matches no row, one that matches every row
Words == {WordJira, WordMail, WordNote, WordX, WordAll}

RECURSIVE Concat(_)
Concat(ws) == IF ws = <<>> THEN <<>> ELSE ws[1] \o Concat(Tail(ws))

RequestJiraTasks ==
    <<"S", "u", "m", "m", "a", "r", "i", "z", "e", " ", "m", "y", " ", "j", "i", "r", "a", " ",
      "t", "a", "s", "k", "s">>

RequestMailNote ==
    <<"c", "h", "e", "c", "k", " ", "e", "m", "a", "i", "l", " ", "a", "n", "d", " ", "u", "p",
      "d", "a", "t", "e", " ", "d", "a", "i", "l", "y", " ", "n", "o", "t", "e">>

\* the requests given to execute: up to MaxWords words, the empty request
\* included, and two requests of a user
Requests ==
    {Concat(ws) : ws \in UNION {[1..n -> Words] : n \in 0..MaxWords}}
        \cup {RequestJiraTasks, RequestMailNote}

------------------------------------------------------------------------------
(* SwarmOrchestrator *)

\* SwarmOrchestrator.__init__: the workers dict
DefaultWorkers ==
    (NameCoder :> "CoderAgent") @@ (NameReviewer :> "ReviewerAgent")
        @@ (NameResearcher :> "ResearcherAgent")

Without(f, key) == [k \in DOMAIN f \ {key} |-> f[k]]

\* workers dicts an embedding application or test installs in place of the
\* default: an entry removed, or an agent that does not override execute
Registries ==
    { DefaultWorkers,
      Without(DefaultWorkers, NameResearcher),
      [DefaultWorkers EXCEPT ![NameResearcher] = "BaseAgent"] }

\* BaseAgent.__init__: every agent starts with an empty history
EmptyHistories(reg) == [n \in {NameRouter} \cup DOMAIN reg |-> <<>>]

\* the tools are not configured and have not been called
\* no SecureEmailClient has been constructed; the variables it would read are
\* not set. A value that may be None is a set of at most one element
NoClient ==
    /\ environ = [EMAIL_ACCOUNT |-> {}, AUTH_METHOD |-> {}, EMAIL_PASSWORD |-> {},
                  AZURE_CLIENT_ID |-> {}, AZURE_TENANT_ID |-> {}]
    /\ client = [constructed |-> FALSE]

NoTools ==
    /\ settings = [OBSIDIAN_VAULT_PATH |-> "", MS_CLIENT_ID |-> "",
                   MS_AUTHORITY |-> "", JIRA_URL |-> <<>>,
                   JIRA_EMAIL |-> "", JIRA_TOKEN |-> ""]
    /\ MSAL_AVAILABLE = FALSE
    /\ vault = [exists |-> FALSE, writable |-> FALSE, daily_notes_dir |-> FALSE,
                notes |-> <<>>]
    /\ graph = [call |-> "none", limit |-> 0, flows |-> <<>>,
               queries |-> <<>>]
    /\ returned = [kind |-> "none", detail |-> ""]
    /\ NoClient

\* no call of execute is in progress: its locals do not exist
NoCall ==
    /\ user_task = <<>>
    /\ delegations = <<>>
    /\ results = <<>>
    /\ idx = 0
    /\ agent_name = <<>>
    /\ context = <<>>
    /\ refs = NoRefs
    /\ final_result = <<>>

Constructed(reg) ==
    /\ messages = <<>>
    /\ now = 0
    /\ workers = reg
    /\ history = EmptyHistories(reg)
    /\ pc = "idle"
    /\ NoCall
    /\ NoTools

\* SwarmOrchestrator() as the repository constructs it
Init == Constructed(DefaultWorkers)

\* an orchestrator whose workers dict was replaced before its first execute
InitHarness == \E reg \in Registries : Constructed(reg)

\* the loop moves to delegation idx + 1, or leaves the loop after the last one
NextStep == IF idx < Len(delegations) THEN "send_task" ELSE "synthesize"

\* no call is in progress; the last call made was reset, or it was not
Idle == pc \in {"idle", "was_reset"}

\* execute is entered with the request as user_task (line 217)
ExecuteStart(request) ==
    /\ Idle
    /\ Len(messages) < MaxLog
    /\ user_task' = request
    /\ pc' = "classify"
    /\ UNCHANGED <<messages, now, workers, history, delegations, results, idx,
                   agent_name, context, refs, final_result>>
    /\ UNCHANGED tool_vars

\* execute, lines 236-244: the router plans the delegations
Classify ==
    /\ pc = "classify"
    /\ delegations' = analyze_and_delegate(user_task)
    /\ results' = <<>>
    /\ idx' = 1
    /\ pc' = IF delegations' = <<>> THEN "synthesize" ELSE "send_task"
    /\ UNCHANGED <<messages, now, workers, history, user_task, agent_name,
                   context, refs, final_result>>
    /\ UNCHANGED tool_vars

\* the loop taking delegation idx without recording it on the bus
SendTaskUnlogged ==
    /\ pc = "send_task"
    /\ agent_name' = delegations[idx].agent
    /\ pc' = "lookup"
    /\ user_task' = <<>>
    /\ UNCHANGED <<messages, now, workers, history, delegations, results, idx,
                   context, refs, final_result>>
    /\ UNCHANGED tool_vars

\* execute, lines 245-255: the loop takes delegation idx and records it on the
\* bus. user_task is last read at line 236; it leaves the state here
SendTask ==
    /\ pc = "send_task"
    /\ agent_name' = delegations[idx].agent
    /\ messages' = send(messages, NameRouter, delegations[idx].agent, "task",
                        delegations[idx].task, now)
    /\ pc' = "lookup"
    /\ user_task' = <<>>
    /\ UNCHANGED <<now, workers, history, delegations, results, idx, context, refs,
                   final_result>>
    /\ UNCHANGED tool_vars

\* the placeholder result of an unregistered agent, line 260
UnknownAgent(name) == UnknownPrefix \o name \o Quote

\* the unknown-agent branch continuing without a placeholder result
LookupNoPlaceholder ==
    /\ pc = "lookup"
    /\ IF agent_name \notin DOMAIN workers
       THEN /\ idx' = idx + 1
            /\ pc' = NextStep
            /\ UNCHANGED <<results, context, refs>>
       ELSE /\ context' = get_context_for(messages, agent_name)
            /\ refs' = context_refs(messages, agent_name)
            /\ pc' = "run"
            /\ UNCHANGED <<results, idx>>
    /\ UNCHANGED <<messages, now, workers, history, user_task, delegations,
                   agent_name, final_result>>
    /\ UNCHANGED tool_vars

\* workers[agent_name] for workers.get(agent_name): a KeyError leaves execute
LookupKeyError ==
    /\ pc = "lookup"
    /\ IF agent_name \notin DOMAIN workers
       THEN /\ pc' = "raised"
            /\ UNCHANGED <<results, idx, context, refs>>
       ELSE /\ context' = get_context_for(messages, agent_name)
            /\ refs' = context_refs(messages, agent_name)
            /\ pc' = "run"
            /\ UNCHANGED <<results, idx>>
    /\ UNCHANGED <<messages, now, workers, history, user_task, delegations,
                   agent_name, final_result>>
    /\ UNCHANGED tool_vars

\* execute, lines 258-265: workers.get, the unknown-agent branch, the context
Lookup ==
    /\ pc = "lookup"
    /\ IF agent_name \notin DOMAIN workers
       THEN /\ results' = Append(results, UnknownAgent(agent_name))
            /\ idx' = idx + 1
            /\ pc' = NextStep
            /\ UNCHANGED <<context, refs>>
       ELSE /\ context' = get_context_for(messages, agent_name)
            /\ refs' = context_refs(messages, agent_name)
            /\ pc' = "run"
            /\ UNCHANGED <<results, idx>>
    /\ UNCHANGED <<messages, now, workers, history, user_task, delegations,
                   agent_name, final_result>>
    /\ UNCHANGED tool_vars

\* execute, lines 271-272: the worker runs; an exception it raises is not caught
RunWorker ==
    /\ pc = "run"
    /\ IF Raises(workers[agent_name])
       THEN /\ pc' = "raised"
            /\ UNCHANGED results
       ELSE /\ results' = Append(results,
                    WorkerExecute(workers[agent_name], delegations[idx].task,
                                  context))
            /\ pc' = "send_result"
    /\ UNCHANGED <<messages, now, workers, history, user_task, delegations, idx,
                   agent_name, context, refs, final_result>>
    /\ UNCHANGED tool_vars

\* the loop going on with the result message not sent
SendResultUnlogged ==
    /\ pc = "send_result"
    /\ idx' = idx + 1
    /\ pc' = NextStep
    /\ UNCHANGED <<messages, now, workers, history, user_task, delegations,
                   results, agent_name, context, refs, final_result>>
    /\ UNCHANGED tool_vars

\* execute, line 275: the result is recorded on the bus, and the loop goes on
SendResult ==
    /\ pc = "send_result"
    /\ messages' = send(messages, agent_name, NameRouter, "result",
                        results[Len(results)], now)
    /\ idx' = idx + 1
    /\ pc' = NextStep
    /\ UNCHANGED <<now, workers, history, user_task, delegations, results,
                   agent_name, context, refs, final_result>>
    /\ UNCHANGED tool_vars

\* execute, line 286: the router synthesizes the report
Synthesize ==
    /\ pc = "synthesize"
    /\ final_result' = synthesize_results(delegations, results)
    /\ pc' = "returned"
    /\ UNCHANGED <<messages, now, workers, history, user_task, delegations,
                   results, idx, agent_name, context, refs>>
    /\ UNCHANGED tool_vars

\* execute ending with the log emptied
ReturnClearsLog ==
    /\ pc \in {"returned", "raised"}
    /\ pc' = "idle"
    /\ user_task' = <<>>
    /\ delegations' = <<>>
    /\ results' = <<>>
    /\ idx' = 0
    /\ agent_name' = <<>>
    /\ context' = <<>>
    /\ refs' = NoRefs
    /\ final_result' = <<>>
    /\ messages' = <<>>
    /\ UNCHANGED <<now, workers, history>>
    /\ UNCHANGED tool_vars

\* execute ends, by return (line 292) or by the exception: its locals are gone
Return ==
    /\ pc \in {"returned", "raised"}
    /\ pc' = "idle"
    /\ user_task' = <<>>
    /\ delegations' = <<>>
    /\ results' = <<>>
    /\ idx' = 0
    /\ agent_name' = <<>>
    /\ context' = <<>>
    /\ refs' = NoRefs
    /\ final_result' = <<>>
    /\ UNCHANGED <<messages, now, workers, history>>
    /\ UNCHANGED tool_vars

\* reset leaving the log as it is
ResetHistoriesOnly ==
    /\ Idle
    /\ history' = [n \in DOMAIN history |-> <<>>]
    /\ pc' = "was_reset"
    /\ UNCHANGED <<messages, now, workers, user_task, delegations, results, idx,
                   agent_name, context, refs, final_result>>
    /\ UNCHANGED tool_vars

\* reset building the workers dict anew, without the reviewer
ResetRebuildsWorkers ==
    /\ Idle
    /\ messages' = clear(messages)
    /\ history' = [n \in DOMAIN history |-> <<>>]
    /\ workers' = [k \in DOMAIN workers \ {NameReviewer} |-> workers[k]]
    /\ pc' = "was_reset"
    /\ UNCHANGED <<now, user_task, delegations, results, idx, agent_name,
                   context, refs, final_result>>
    /\ UNCHANGED tool_vars

\* SwarmOrchestrator.reset
Reset ==
    /\ Idle
    /\ messages' = clear(messages)
    /\ history' = [n \in DOMAIN history |-> <<>>]
    /\ pc' = "was_reset"
    /\ UNCHANGED <<now, workers, user_task, delegations, results, idx,
                   agent_name, context, refs, final_result>>
    /\ UNCHANGED tool_vars

\* time passes
Tick ==
    /\ now < MaxClock
    /\ now' = now + 1
    /\ UNCHANGED <<messages, workers, history, pc, user_task, delegations,
                   results, idx, agent_name, context, refs, final_result>>
    /\ UNCHANGED tool_vars

Next ==
    \/ \E request \in Requests : ExecuteStart(request)
    \/ Classify
    \/ SendTask
    \/ Lookup
    \/ RunWorker
    \/ SendResult
    \/ Synthesize
    \/ Return
    \/ Reset
    \/ Tick

Spec == Init /\ [][Next]_vars

SpecHarness == InitHarness /\ [][Next]_vars

\* an orchestrator whose researcher was replaced by the stub of a test
InitStub == Constructed([DefaultWorkers EXCEPT ![NameResearcher] = "StubAgent"])

SpecStub == InitStub /\ [][Next]_vars

------------------------------------------------------------------------------
(* The MessageBus used on its own *)

BusNames == {NameRouter, NameCoder}

BusTypes == {"task", "query"}

BusContents == {WordX}

\* MessageBus(): an empty log, no call made yet
InitBus ==
    /\ messages = <<>>
    /\ now = 0
    /\ workers = DefaultWorkers
    /\ history = EmptyHistories(DefaultWorkers)
    /\ pc = "bus"
    /\ NoCall
    /\ NoTools

\* the caller holds a list as a get call returned it
HoldsList == pc \in {"got_context", "got_all"}

BusIdle == pc \in {"bus", "cleared", "held_list", "held_item"} \/ HoldsList

\* a call of MessageBus.send; the caller keeps no list returned earlier
BusSend(from_agent, to_agent, message_type, content) ==
    /\ BusIdle
    /\ Len(messages) < MaxBusLen
    /\ messages' = send(messages, from_agent, to_agent, message_type, content, now)
    /\ pc' = "bus"
    /\ agent_name' = <<>>
    /\ context' = <<>>
    /\ refs' = NoRefs
    /\ UNCHANGED <<now, workers, history, user_task, delegations, results, idx,
                   final_result>>
    /\ UNCHANGED tool_vars

\* a call of MessageBus.get_context_for
BusGetContextFor(name) ==
    /\ BusIdle
    /\ agent_name' = name
    /\ context' = get_context_for(messages, name)
    /\ refs' = context_refs(messages, name)
    /\ pc' = "got_context"
    /\ UNCHANGED <<messages, now, workers, history, user_task, delegations,
                   results, idx, final_result>>
    /\ UNCHANGED tool_vars

\* a call of MessageBus.get_all_messages
BusGetAllMessages ==
    /\ BusIdle
    /\ agent_name' = <<>>
    /\ context' = get_all_messages(messages)
    /\ refs' = all_refs(messages)
    /\ pc' = "got_all"
    /\ UNCHANGED <<messages, now, workers, history, user_task, delegations,
                   results, idx, final_result>>
    /\ UNCHANGED tool_vars

\* a call of MessageBus.clear: self.messages is bound to a new empty list. A
\* list the caller holds stays as it is, and none of its dicts is logged now
BusClear ==
    /\ BusIdle
    /\ messages' = clear(messages)
    /\ pc' = "cleared"
    /\ refs' = IF messages' = <<>>
                THEN Held(FALSE, [j \in 1..Len(context) |-> 0])
                ELSE refs
    /\ UNCHANGED <<now, workers, history, user_task, delegations, results, idx,
                   agent_name, context, final_result>>
    /\ UNCHANGED tool_vars

\* the dict the holder of a returned list appends to it
HolderMessage ==
    [from |-> NameCoder, to |-> NameCoder, type |-> "query", content |-> <<>>,
     timestamp |-> 0]

\* the holder of a returned list appends a dict of its own to it; the log
\* changes with it when the list is self.messages itself
HolderAppends ==
    /\ HoldsList
    /\ Len(context) <= Len(messages)
    /\ context' = Append(context, HolderMessage)
    /\ messages' = IF refs.same_list THEN context' ELSE messages
    /\ refs' = [refs EXCEPT !.places =
                    Append(@, IF refs.same_list THEN Len(context') ELSE 0)]
    /\ pc' = "held_list"
    /\ UNCHANGED <<now, workers, history, user_task, delegations, results, idx,
                   agent_name, final_result>>
    /\ UNCHANGED tool_vars

\* the holder of a returned list pops its last element
HolderRemoves ==
    /\ HoldsList
    /\ context # <<>>
    /\ context' = SubSeq(context, 1, Len(context) - 1)
    /\ messages' = IF refs.same_list THEN context' ELSE messages
    /\ refs' = [refs EXCEPT !.places = SubSeq(@, 1, Len(context) - 1)]
    /\ pc' = "held_list"
    /\ UNCHANGED <<now, workers, history, user_task, delegations, results, idx,
                   agent_name, final_result>>
    /\ UNCHANGED tool_vars

\* the holder of a returned list assigns to a key of its j-th element. The
\* element is the dict object the log holds at refs.places[j], so the logged
\* message changes with it
HolderEdits(j, message_type) ==
    /\ HoldsList
    /\ j \in 1..Len(context)
    /\ context[j]["type"] # message_type
    /\ context' = [context EXCEPT ![j]["type"] = message_type]
    /\ messages' = IF refs.places[j] > 0
                    THEN [messages EXCEPT ![refs.places[j]]["type"] = message_type]
                    ELSE messages
    /\ pc' = "held_item"
    /\ UNCHANGED <<now, workers, history, user_task, delegations, results, idx,
                   agent_name, refs, final_result>>
    /\ UNCHANGED tool_vars

NextBus ==
    \/ \E f \in BusNames, t \in BusNames, ty \in BusTypes, c \in BusContents :
            BusSend(f, t, ty, c)
    \/ \E name \in BusNames : BusGetContextFor(name)
    \/ BusGetAllMessages
    \/ BusClear
    \/ Tick

SpecBus == InitBus /\ [][NextBus]_vars

\* the MessageBus and a caller that changes the lists it is given: the workers
\* send tasks to the router
NextHolder ==
    \/ \E f \in BusNames : BusSend(f, NameRouter, "task", WordX)
    \/ \E name \in BusNames : BusGetContextFor(name)
    \/ BusGetAllMessages
    \/ BusClear
    \/ HolderAppends
    \/ HolderRemoves
    \/ \E j \in 1..MaxBusLen, ty \in BusTypes : HolderEdits(j, ty)
    \/ Tick

SpecHolder == InitBus /\ [][NextHolder]_vars

------------------------------------------------------------------------------
(* RouterAgent.synthesize_results called on its own *)

SeqsUpTo(S, n) == UNION {[1..k -> S] : k \in 0..n}

\* a text of n characters whose characters differ from place to place
TextOfLength(n) == [k \in 1..n |-> Digit[(k % 10) + 1]]

SynthLengths ==
    {0, 1, TruncateAt - 1, TruncateAt, TruncateAt + 1, TruncateAt + MaxExtra}

SynthResults == {TextOfLength(n) : n \in SynthLengths}

SynthDelegations ==
    {Delegation(NameResearcher, JiraTask), Delegation(NameCoder, WordX)}

\* synthesize_results is about to be called with the two lists
InitSynth ==
    /\ messages = <<>>
    /\ now = 0
    /\ workers = DefaultWorkers
    /\ history = EmptyHistories(DefaultWorkers)
    /\ pc = "synthesize"
    /\ user_task = <<>>
    /\ delegations \in SeqsUpTo(SynthDelegations, MaxPairs)
    /\ results \in SeqsUpTo(SynthResults, MaxPairs)
    /\ idx = 0
    /\ agent_name = <<>>
    /\ context = <<>>
    /\ refs = NoRefs
    /\ final_result = <<>>
    /\ NoTools

NextSynth ==
    \/ Synthesize
    \/ Return

SpecSynth == InitSynth /\ [][NextSynth]_vars

------------------------------------------------------------------------------
(* obsidian_tools: the daily note *)

\* a note is updated only while the notes of the vault hold fewer update
\* separators than this
MaxUpdates == 1

RECURSIVE StrToInt(_)
\* int(s) of a text of decimal digits
StrToInt(s) ==
    LET DigitValue(c) == CHOOSE d \in 0..9 : Digit[d + 1] = c
    IN  IF s = <<>> THEN 0
        ELSE StrToInt(SubSeq(s, 1, Len(s) - 1)) * 10 + DigitValue(s[Len(s)])

\* n in decimal, padded with zeros to the width
Pad(n, width) ==
    LET s == IntToStr(n)
    IN  [k \in 1..(IF Len(s) < width THEN width - Len(s) ELSE 0) |-> "0"] \o s

\* the days of a month of the Gregorian calendar
DaysIn(year, month) ==
    IF month = 2
    THEN IF year % 4 = 0 /\ (year % 100 # 0 \/ year % 400 = 0) THEN 29 ELSE 28
    ELSE IF month \in {4, 6, 9, 11} THEN 30 ELSE 31

\* datetime.strptime(date, "%Y-%m-%d"): four digits, one or two digits, one or
\* two digits, a calendar day; ok is FALSE where strptime raises ValueError
strptime(date) ==
    LET Least(S) == CHOOSE x \in S : \A z \in S : x <= z
        IsDigits(s) ==
            s # <<>> /\ \A i \in 1..Len(s) : \E k \in 1..10 : Digit[k] = s[i]
        dashes == {i \in 1..Len(date) : date[i] = "-"}
        first == IF dashes = {} THEN 0 ELSE Least(dashes)
        rest == dashes \ {first}
        second == IF rest = {} THEN 0 ELSE Least(rest)
        y == SubSeq(date, 1, first - 1)
        mo == SubSeq(date, first + 1, second - 1)
        d == SubSeq(date, second + 1, Len(date))
        shaped == /\ Cardinality(dashes) = 2
                  /\ IsDigits(y) /\ Len(y) = 4
                  /\ IsDigits(mo) /\ Len(mo) <= 2
                  /\ IsDigits(d) /\ Len(d) <= 2
        valid == /\ shaped
                 /\ StrToInt(y) >= 1
                 /\ StrToInt(mo) \in 1..12
                 /\ StrToInt(d) \in 1..DaysIn(StrToInt(y), StrToInt(mo))
    IN  IF valid
        THEN [ok |-> TRUE, year |-> StrToInt(y), month |-> StrToInt(mo),
              day |-> StrToInt(d), hour |-> 0, minute |-> 0]
        ELSE [ok |-> FALSE, year |-> 0, month |-> 0, day |-> 0, hour |-> 0,
              minute |-> 0]

\* datetime.now(): instant t of the clock is minute t after 08:00 on 2026-11-01
datetime_now(t) ==
    [ok |-> TRUE, year |-> 2026, month |-> 11, day |-> 1, hour |-> 8,
     minute |-> t]

\* strftime("%Y-%m-%d")
strftime_ymd(dt) ==
    Pad(dt.year, 4) \o <<"-">> \o Pad(dt.month, 2) \o <<"-">> \o Pad(dt.day, 2)

\* strftime("%H:%M")
strftime_hm(dt) == Pad(dt.hour, 2) \o <<":">> \o Pad(dt.minute, 2)

\* datetime.isoformat() of an instant with no seconds and no microseconds
isoformat(dt) ==
    strftime_ymd(dt) \o <<"T">> \o strftime_hm(dt) \o <<":", "0", "0">>

\* strftime("%A, %B %d, %Y")
strftime_long(dt) ==
    LET DayNames ==
            << <<"S", "u", "n", "d", "a", "y">>,
               <<"M", "o", "n", "d", "a", "y">>,
               <<"T", "u", "e", "s", "d", "a", "y">>,
               <<"W", "e", "d", "n", "e", "s", "d", "a", "y">>,
               <<"T", "h", "u", "r", "s", "d", "a", "y">>,
               <<"F", "r", "i", "d", "a", "y">>,
               <<"S", "a", "t", "u", "r", "d", "a", "y">> >>
        MonthNames ==
            << <<"J", "a", "n", "u", "a", "r", "y">>,
               <<"F", "e", "b", "r", "u", "a", "r", "y">>,
               <<"M", "a", "r", "c", "h">>,
               <<"A", "p", "r", "i", "l">>,
               <<"M", "a", "y">>,
               <<"J", "u", "n", "e">>,
               <<"J", "u", "l", "y">>,
               <<"A", "u", "g", "u", "s", "t">>,
               <<"S", "e", "p", "t", "e", "m", "b", "e", "r">>,
               <<"O", "c", "t", "o", "b", "e", "r">>,
               <<"N", "o", "v", "e", "m", "b", "e", "r">>,
               <<"D", "e", "c", "e", "m", "b", "e", "r">> >>
        shift == <<0, 3, 2, 5, 0, 3, 5, 1, 4, 6, 2, 4>>
        y == IF dt.month < 3 THEN dt.year - 1 ELSE dt.year
        \* the day of the week, 0 for Sunday
        weekday == (y + (y \div 4) - (y \div 100) + (y \div 400)
                        + shift[dt.month] + dt.day) % 7
    IN  DayNames[weekday + 1] \o <<",", " ">> \o MonthNames[dt.month]
            \o <<" ">> \o Pad(dt.day, 2) \o <<",", " ">> \o Pad(dt.year, 4)

SeparatorHead ==
    <<"\n", "\n", "-", "-", "-", "\n", "\n", "#", "#", " ", "U", "p", "d", "a", "t", "e", " ",
      "a", "t", " ">>

\* the frontmatter f-string of a new note
Frontmatter(note_date, t) ==
    LET FrontDate ==
            <<"-", "-", "-", "\n", "d", "a", "t", "e", ":", " ">>
        FrontCreated ==
            <<"\n", "c", "r", "e", "a", "t", "e", "d", ":", " ">>
        FrontTags ==
            <<"\n", "t", "a", "g", "s", ":", " ", "[", "d", "a", "i", "l", "y", "-", "n", "o", "t",
            "e", "]", "\n", "-", "-", "-", "\n", "\n", "#", " ">>
    IN  FrontDate \o strftime_ymd(note_date) \o FrontCreated
            \o isoformat(datetime_now(t)) \o FrontTags
            \o strftime_long(note_date) \o <<"\n", "\n">>

\* the separator f-string of an update
Separator(t) ==
    SeparatorHead \o strftime_hm(datetime_now(t)) \o <<"\n", "\n">>

\* a character utf-8 cannot encode (a lone surrogate)
Surrogate == "\\udc80"

\* Path.read_text: the file is opened in text mode, where "\r\n" and "\r" are
\* read as "\n"
read_text(data) ==
    LET Kept(i) == ~(data[i] = "\n" /\ i > 1 /\ data[i - 1] = "\r")
        places == SelectSeq([i \in 1..Len(data) |-> i], Kept)
    IN  [j \in 1..Len(places) |->
            IF data[places[j]] = "\r" THEN "\n" ELSE data[places[j]]]

\* Path.write_text on a POSIX host: open(mode="w") empties the file, then the
\* text is encoded and written; "\n" is written as it is. Encoding a lone
\* surrogate raises before a byte is written
write_text(text) ==
    IF \E i \in 1..Len(text) : text[i] = Surrogate
    THEN [raised |-> TRUE, data |-> <<>>]
    ELSE [raised |-> FALSE, data |-> text]

\* a return value of a tool
Value(kind, detail) == [kind |-> kind, detail |-> detail]

\* the vault with the note file holding the data
WithNote(vlt, filename, data) ==
    [vlt EXCEPT !.daily_notes_dir = TRUE,
                !.notes = (filename :> data) @@ vlt.notes]

\* the update headings the notes of a vault hold: the places of "##" (the
\* contents given to the calls hold no "#")
Updates(vlt) ==
    LET Headings(data) ==
            {i \in 1..(Len(data) - 1) : data[i] = "#" /\ data[i + 1] = "#"}
    IN  Cardinality(UNION {{<<filename, i>> : i \in Headings(vlt.notes[filename])} :
                            filename \in DOMAIN vlt.notes})

\* the note's file name for the date argument (None and "" are both <<>>)
NoteFile(date, t) ==
    strftime_ymd(IF date # <<>> THEN strptime(date) ELSE datetime_now(t))
        \o <<".", "m", "d">>

\* write_daily_note: the vault afterwards and the value returned
write_daily_note(content, date, path, vlt, t) ==
    IF path = ""
    THEN [vault |-> vlt, value |-> Value("error", "OBSIDIAN_VAULT_PATH")]
    ELSE IF date # <<>> /\ ~strptime(date).ok
    THEN [vault |-> vlt, value |-> Value("error", "Invalid date format")]
    ELSE IF ~vlt.exists
    THEN [vault |-> vlt, value |-> Value("error", "Vault path does not exist")]
    ELSE IF ~vlt.daily_notes_dir /\ ~vlt.writable
    THEN [vault |-> vlt, value |-> Value("error", "Permission denied")]
    ELSE
    LET note_date == IF date # <<>> THEN strptime(date) ELSE datetime_now(t)
        filename == NoteFile(date, t)
        there == filename \in DOMAIN vlt.notes
        with_dir == [vlt EXCEPT !.daily_notes_dir = TRUE]
        new_content ==
            IF there
            THEN read_text(vlt.notes[filename]) \o Separator(t) \o content
            ELSE Frontmatter(note_date, t) \o content
        written == write_text(new_content)
    IN  IF ~vlt.writable
        THEN [vault |-> with_dir, value |-> Value("error", "Permission denied")]
        ELSE IF written.raised
        THEN [vault |-> WithNote(vlt, filename, written.data),
              value |-> Value("error", "Error writing daily note")]
        ELSE [vault |-> WithNote(vlt, filename, written.data),
              value |-> Value(IF there THEN "updated" ELSE "created", "")]

\* the date arguments: none, a date, the same date without the zeros, two
\* texts strptime refuses
DateInputs ==
    { <<>>,
      <<"2", "0", "2", "6", "-", "0", "1", "-", "0", "7">>,
      <<"2", "0", "2", "6", "-", "1", "-", "7">>,
      <<"0", "7", "/", "0", "1", "/", "2", "0", "2", "6">>,
      <<"2", "0", "2", "6", "-", "0", "2", "-", "3", "0">> }

\* the content arguments: plain text, text with a Windows line end, text that
\* utf-8 cannot encode
NoteContents == {<<"a">>, <<"b", "\r", "\n", "c">>, <<"d", Surrogate>>}

\* a process that calls write_daily_note; the vault is configured or not, is
\* there or not, has its Daily Notes directory or not, can be written or not
InitNotes ==
    /\ messages = <<>>
    /\ now = 0
    /\ workers = DefaultWorkers
    /\ history = EmptyHistories(DefaultWorkers)
    /\ pc = "tools"
    /\ NoCall
    /\ settings \in [OBSIDIAN_VAULT_PATH : {"", "vault"}, MS_CLIENT_ID : {""},
                     MS_AUTHORITY : {""}, JIRA_URL : {<<>>},
                     JIRA_EMAIL : {""}, JIRA_TOKEN : {""}]
    /\ MSAL_AVAILABLE = FALSE
    /\ vault \in {v \in [exists : BOOLEAN, writable : BOOLEAN,
                         daily_notes_dir : BOOLEAN, notes : {<<>>}] :
                    v.daily_notes_dir => v.exists}
    /\ graph = [call |-> "none", limit |-> 0, flows |-> <<>>,
               queries |-> <<>>]
    /\ returned = Value("none", "")
    /\ NoClient

\* a call of write_daily_note(content, date)
WriteDailyNote(content, date) ==
    LET call == write_daily_note(content, date, settings.OBSIDIAN_VAULT_PATH,
                                 vault, now)
        filename == NoteFile(date, now)
    IN  /\ pc = "tools"
        /\ (date = <<>> \/ strptime(date).ok) =>
              (filename \in DOMAIN vault.notes => Updates(vault) < MaxUpdates)
        /\ vault' = call.vault
        /\ returned' = call.value
        /\ UNCHANGED <<swarm_vars, settings, MSAL_AVAILABLE, graph, environ,
                       client>>

NextNotes ==
    \/ \E content \in NoteContents, date \in DateInputs :
            WriteDailyNote(content, date)
    \/ Tick

SpecNotes == InitNotes /\ [][NextNotes]_vars

------------------------------------------------------------------------------
(* email_tools and DataCollector: the mailbox *)

\* limit = max(1, min(limit, 50))
LimitMin == 1

LimitMax == 50

\* the limit arguments
Limits == {0 - 1, 0, 1, 10, 50, 51, 100}

\* what the msal library and Microsoft answer during one call: whether the
\* application object can be built, whether the token cache has an account,
\* and what each way of signing in and the mail query come to
Worlds ==
    [app_raises : BOOLEAN, accounts : BOOLEAN, silent : BOOLEAN,
     interactive : {"token", "none", "raises"}, device_code : BOOLEAN,
     device : BOOLEAN, query_raises : BOOLEAN]

\* the answer of _get_graph_access_token: the calls it made on the msal
\* application, whether it got a token, whether it raised
Token(flows, token, raised) == [flows |-> flows, token |-> token, raised |-> raised]

\* the calls _get_graph_access_token makes on the msal application with the
\* answers w, each with what it gave: get_accounts, acquire_token_silent,
\* acquire_token_interactive, initiate_device_flow,
\* acquire_token_by_device_flow
MsalCall(method, w) ==
    [method |-> method,
     gave |-> CASE method = "get_accounts" ->
                        IF w.accounts THEN "account" ELSE "none"
                [] method = "acquire_token_silent" ->
                        IF w.silent THEN "token" ELSE "none"
                [] method = "acquire_token_interactive" -> w.interactive
                [] method = "initiate_device_flow" ->
                        IF w.device_code THEN "user_code" ELSE "none"
                [] method = "acquire_token_by_device_flow" ->
                        IF w.device THEN "token" ELSE "none"]

\* the token function starting the device-code flow before the browser flow
get_graph_access_token_device_first(msal_available, w) ==
    LET cached == <<MsalCall("get_accounts", w)>>
                    \o (IF w.accounts THEN <<MsalCall("acquire_token_silent", w)>>
                                      ELSE <<>>)
        flow == <<MsalCall("initiate_device_flow", w)>>
        device == <<MsalCall("acquire_token_by_device_flow", w)>>
        interactive == <<MsalCall("acquire_token_interactive", w)>>
    IN  IF ~msal_available THEN Token(<<>>, FALSE, FALSE)
        ELSE IF w.app_raises THEN Token(<<>>, FALSE, TRUE)
        ELSE IF w.accounts /\ w.silent THEN Token(cached, TRUE, FALSE)
        ELSE IF w.device_code /\ w.device
        THEN Token(cached \o flow \o device, TRUE, FALSE)
        ELSE Token(cached \o flow \o (IF w.device_code THEN device ELSE <<>>)
                        \o interactive,
                   w.interactive = "token", FALSE)

\* _get_graph_access_token
get_graph_access_token(msal_available, w) ==
    LET cached == <<MsalCall("get_accounts", w)>>
                    \o (IF w.accounts THEN <<MsalCall("acquire_token_silent", w)>>
                                      ELSE <<>>)
        interactive == <<MsalCall("acquire_token_interactive", w)>>
        flow == <<MsalCall("initiate_device_flow", w)>>
        device == <<MsalCall("acquire_token_by_device_flow", w)>>
    IN  IF ~msal_available THEN Token(<<>>, FALSE, FALSE)
        ELSE IF w.app_raises THEN Token(<<>>, FALSE, TRUE)
        ELSE IF w.accounts /\ w.silent THEN Token(cached, TRUE, FALSE)
        ELSE IF w.interactive = "token"
        THEN Token(cached \o interactive, TRUE, FALSE)
        ELSE IF ~w.device_code
        THEN Token(cached \o interactive \o flow, FALSE, FALSE)
        ELSE Token(cached \o interactive \o flow \o device, w.device, FALSE)

\* what a mail call did and returned
Fetched(flows, queries, value) ==
    [flows |-> flows, queries |-> queries, value |-> value]

\* fetch_recent_emails
fetch_recent_emails(limit, msal_available, st, w) ==
    LET low == IF limit < LimitMax THEN limit ELSE LimitMax
        clamped == IF LimitMin > low THEN LimitMin ELSE low
        tok == get_graph_access_token(msal_available, w)
    IN  IF ~msal_available
        THEN Fetched(<<>>, <<>>, Value("error", "MSAL library not installed"))
        ELSE IF st.MS_CLIENT_ID = ""
        THEN Fetched(<<>>, <<>>, Value("error", "MS_CLIENT_ID not configured"))
        ELSE IF st.MS_AUTHORITY = ""
        THEN Fetched(<<>>, <<>>, Value("error", "MS_AUTHORITY not configured"))
        ELSE IF tok.raised
        THEN Fetched(tok.flows, <<>>, Value("error", "Failed to fetch emails"))
        ELSE IF ~tok.token
        THEN Fetched(tok.flows, <<>>,
                     Value("error", "Failed to obtain access token"))
        ELSE IF w.query_raises
        THEN Fetched(tok.flows, <<clamped>>,
                     Value("error", "Failed to fetch emails"))
        ELSE Fetched(tok.flows, <<clamped>>, Value("emails", ""))

\* DataCollector._get_emails: every failure is the empty list
collector_get_emails(limit, msal_available, st, w) ==
    LET tok == get_graph_access_token(msal_available, w)
    IN  IF ~msal_available THEN Fetched(<<>>, <<>>, Value("list", "empty"))
        ELSE IF st.MS_CLIENT_ID = ""
        THEN Fetched(<<>>, <<>>, Value("list", "empty"))
        ELSE IF tok.raised \/ ~tok.token
        THEN Fetched(tok.flows, <<>>, Value("list", "empty"))
        ELSE IF w.query_raises
        THEN Fetched(tok.flows, <<limit>>, Value("list", "empty"))
        ELSE Fetched(tok.flows, <<limit>>, Value("list", "emails"))

\* a process that fetches mail, with msal installed or not and the two
\* settings given or not
InitMail ==
    /\ messages = <<>>
    /\ now = 0
    /\ workers = DefaultWorkers
    /\ history = EmptyHistories(DefaultWorkers)
    /\ pc = "tools"
    /\ NoCall
    /\ settings \in [OBSIDIAN_VAULT_PATH : {""}, MS_CLIENT_ID : {"", "id"},
                     MS_AUTHORITY : {"", "authority"}, JIRA_URL : {<<>>},
                     JIRA_EMAIL : {""}, JIRA_TOKEN : {""}]
    /\ MSAL_AVAILABLE \in BOOLEAN
    /\ vault = [exists |-> FALSE, writable |-> FALSE, daily_notes_dir |-> FALSE,
                notes |-> <<>>]
    /\ graph = [call |-> "none", limit |-> 0, flows |-> <<>>, queries |-> <<>>]
    /\ returned = Value("none", "")
    /\ NoClient

\* the caller has the answer of a mail call
Answered(name, limit, call) ==
    /\ graph' = [call |-> name, limit |-> limit, flows |-> call.flows,
                 queries |-> call.queries]
    /\ returned' = call.value
    /\ UNCHANGED <<swarm_vars, settings, MSAL_AVAILABLE, vault, environ,
                       client>>

\* a call of fetch_recent_emails(limit)
FetchRecentEmails(limit, w) ==
    /\ pc = "tools"
    /\ Answered("fetch_recent_emails", limit,
                fetch_recent_emails(limit, MSAL_AVAILABLE, settings, w))

\* a call of DataCollector._get_emails(limit)
CollectorGetEmails(limit, w) ==
    /\ pc = "tools"
    /\ Answered("_get_emails", limit,
                collector_get_emails(limit, MSAL_AVAILABLE, settings, w))

NextMail ==
    \/ \E limit \in Limits, w \in Worlds : FetchRecentEmails(limit, w)
    \/ \E limit \in Limits, w \in Worlds : CollectorGetEmails(limit, w)

SpecMail == InitMail /\ [][NextMail]_vars

------------------------------------------------------------------------------
(* jira_tools: the issue tracker *)

\* str.rstrip("/")
RECURSIVE rstrip(_)
rstrip(text) ==
    IF text # <<>> /\ text[Len(text)] = "/"
    THEN rstrip(SubSeq(text, 1, Len(text) - 1))
    ELSE text

\* what requests.post comes to: a fault of the transport, or a response with
\* a status and a body. The bodies: a JSON object with issues, one whose
\* issues are numbers, one with neither issues nor errorMessages, one with
\* errorMessages, a JSON array, a JSON string, JSON null, and text that is
\* not JSON
Responses ==
    [fault : {"none", "ConnectionError", "Timeout"},
     status : {200, 400, 404, 500},
     body : {"issues", "issues_of_numbers", "object", "errorMessages",
             "array", "string", "null", "not_json"}]

\* the body the two search functions share, which differ in the JQL they send
\* and in what they return: the requests posted and how the call ends, with
\* the issues found, with a handled failure and its message, or with an
\* exception. An exception raised inside an except clause is not handled by
\* the clauses that follow it
jira_search(jql, st, r) ==
    LET api_url == rstrip(st.JIRA_URL) \o <<"/rest/api/3/search/jql">>
        posted == <<[url |-> api_url, jql |-> jql]>>
        Answer(queries, value) == [queries |-> queries, ends |-> value]
        Payload(issues) == Value("issues", issues)
        Failed(error_msg) == Value("failure", error_msg)
        IsObject == r.body \in {"issues", "issues_of_numbers", "object",
                                "errorMessages"}
        status_code == IntToStr(r.status)
        error_detail == IF r.body = "errorMessages" THEN <<"errorMessages">>
                                                    ELSE <<"text">>
    IN  IF st.JIRA_URL = <<>>
        THEN Answer(<<>>, Failed(<<"JIRA_URL not configured in environment">>))
        ELSE IF st.JIRA_EMAIL = "" \/ st.JIRA_TOKEN = ""
        THEN Answer(<<>>,
                    Failed(<<"JIRA_EMAIL and JIRA_TOKEN must be configured">>))
        ELSE IF r.fault = "ConnectionError"
        THEN Answer(posted, Failed(<<"Connection error: Unable to reach Jira at ",
                                     st.JIRA_URL>>))
        ELSE IF r.fault = "Timeout"
        THEN Answer(posted,
                    Failed(<<"Request timed out while connecting to Jira">>))
        ELSE IF r.status >= 400
        THEN IF r.body = "not_json"
             THEN Answer(posted, Failed(<<"Jira API error: ", status_code,
                                          " - ", "text">>))
             ELSE IF IsObject
             THEN Answer(posted, Failed(<<"Jira API error: ", status_code,
                                          " - ", error_detail>>))
             ELSE Answer(posted, Value("raised", <<"AttributeError">>))
        ELSE IF r.body = "not_json"
        THEN Answer(posted, Failed(<<"Invalid JSON response from Jira: ">>))
        ELSE IF ~IsObject \/ r.body = "issues_of_numbers"
        THEN Answer(posted, Failed(<<"Unexpected error querying Jira: ",
                                     "AttributeError">>))
        ELSE Answer(posted, Payload(IF r.body = "issues" THEN <<"OD-1">>
                                                          ELSE <<>>))

\* search_jira_issues(jql): a JSON text, of the issues or of {"error": ...}
search_jira_issues(jql, st, r) ==
    LET call == jira_search(jql, st, r)
    IN  [queries |-> call.queries,
         value |-> CASE call.ends.kind = "issues" ->
                            Value("json", <<"issues", call.ends.detail>>)
                     [] call.ends.kind = "failure" ->
                            Value("json", <<"error", call.ends.detail>>)
                     [] call.ends.kind = "raised" -> call.ends]

\* get_all_my_issues(): a list, of the issues or empty
get_all_my_issues(st, r) ==
    LET call == jira_search("assignee = currentUser() ORDER BY updated DESC",
                            st, r)
    IN  [queries |-> call.queries,
         value |-> CASE call.ends.kind = "issues" ->
                            Value("list", call.ends.detail)
                     [] call.ends.kind = "failure" -> Value("list", <<>>)
                     [] call.ends.kind = "raised" -> call.ends]

\* the JQL texts a caller searches with
Queries == {"", "project = OD", "status != Done"}

\* a process that queries Jira, the three settings given or not
InitJira ==
    /\ messages = <<>>
    /\ now = 0
    /\ workers = DefaultWorkers
    /\ history = EmptyHistories(DefaultWorkers)
    /\ pc = "tools"
    /\ NoCall
    /\ settings \in [OBSIDIAN_VAULT_PATH : {""}, MS_CLIENT_ID : {""},
                     MS_AUTHORITY : {""},
                     JIRA_URL : {<<>>, <<"j">>, <<"j", "/">>},
                     JIRA_EMAIL : {"", "email"}, JIRA_TOKEN : {"", "token"}]
    /\ MSAL_AVAILABLE = FALSE
    /\ vault = [exists |-> FALSE, writable |-> FALSE, daily_notes_dir |-> FALSE,
                notes |-> <<>>]
    /\ graph = [call |-> "none", limit |-> 0, flows |-> <<>>, queries |-> <<>>]
    /\ returned = Value("none", "")
    /\ NoClient

\* a call of search_jira_issues(jql)
SearchJiraIssues(jql, r) ==
    LET call == search_jira_issues(jql, settings, r)
    IN  /\ pc = "tools"
        /\ graph' = [call |-> "search_jira_issues", limit |-> 0,
                     flows |-> <<>>, queries |-> call.queries]
        /\ returned' = call.value
        /\ UNCHANGED <<swarm_vars, settings, MSAL_AVAILABLE, vault, environ,
                       client>>

\* a call of get_all_my_issues()
GetAllMyIssues(r) ==
    LET call == get_all_my_issues(settings, r)
    IN  /\ pc = "tools"
        /\ graph' = [call |-> "get_all_my_issues", limit |-> 0,
                     flows |-> <<>>, queries |-> call.queries]
        /\ returned' = call.value
        /\ UNCHANGED <<swarm_vars, settings, MSAL_AVAILABLE, vault, environ,
                       client>>

NextJira ==
    \/ \E jql \in Queries, r \in Responses : SearchJiraIssues(jql, r)
    \/ \E r \in Responses : GetAllMyIssues(r)

SpecJira == InitJira /\ [][NextJira]_vars

------------------------------------------------------------------------------
(* utis/secure_email_client: the transactional mail client *)

AzureOauth ==
    <<"a", "z", "u", "r", "e", "_", "o", "a", "u", "t", "h">>

\* what the user types and what msal answers while a client is constructed:
\* the address and the password typed when asked, whether the token cache has
\* the account, and what the silent request, the start of the device flow and
\* its end come to
SignIns ==
    [input : {"typed@host"}, getpass : {"", "typed"}, accounts : BOOLEAN,
     silent : {"token", "none", "error"}, device_code : BOOLEAN,
     device : {"token", "error"}]

\* SecureEmailClient(): the object, or the exception __init__ raised
SecureEmailClient(env, msal_available, w) ==
    LET getenv(value, default) == IF value = {} THEN default
                                  ELSE CHOOSE v \in value : TRUE
        Raised(exception) == [raised |-> exception]
        auth_method == Lower(getenv(env.AUTH_METHOD, <<"b", "a", "s", "i", "c">>))
        email_account == IF getenv(env.EMAIL_ACCOUNT, "") = "" THEN w.input
                         ELSE getenv(env.EMAIL_ACCOUNT, "")
        self == [constructed |-> TRUE, email_account |-> email_account,
                 auth_method |-> auth_method, access_token |-> {},
                 password |-> {}]
        env_password == getenv(env.EMAIL_PASSWORD, "")
        silent == IF w.accounts THEN w.silent ELSE "none"
        result == IF silent = "none" THEN w.device ELSE silent
    IN  IF auth_method = AzureOauth
        THEN \* _authenticate_via_azure_oauth
             IF ~msal_available THEN Raised("ImportError")
             ELSE IF getenv(env.AZURE_CLIENT_ID, "") = ""
                     \/ getenv(env.AZURE_TENANT_ID, "") = ""
             THEN Raised("ValueError")
             ELSE IF silent = "none" /\ ~w.device_code
             THEN Raised("RuntimeError")
             ELSE IF result = "token"
             THEN [raised |-> "", self |-> [self EXCEPT !.access_token = {"token"}]]
             ELSE Raised("RuntimeError")
        ELSE \* _authenticate_via_password
             [raised |-> "",
              self |-> [self EXCEPT !.password =
                            IF env_password = "" THEN {w.getpass}
                                                 ELSE {env_password}]]

\* an authentication that logs in with the password whatever the method
client_authenticate_password(self) ==
    [mechanism |-> "LOGIN",
     credential |-> <<self.email_account, self.password>>]

\* the authentication send_email and fetch_recent_emails make once connected:
\* XOAUTH2 with the string made of account and access token, or a login with
\* account and password
client_authenticate(self) ==
    IF self.auth_method = AzureOauth
    THEN [mechanism |-> "XOAUTH2",
          credential |-> <<"user=", self.email_account, "\\x01auth=Bearer ",
                           self.access_token, "\\x01\\x01">>]
    ELSE [mechanism |-> "LOGIN",
          credential |-> <<self.email_account, self.password>>]

\* send_email and fetch_recent_emails up to the authentication: what was sent
\* to the server to authenticate, and whether the session can go on
client_session(self, connects, accepts) ==
    IF ~connects THEN [flows |-> <<>>, open |-> FALSE]
    ELSE [flows |-> <<client_authenticate(self)>>, open |-> accepts]

\* a process that constructs mail clients and uses the last one constructed;
\* AUTH_METHOD is not set or is one of the AuthMethods
InitClient ==
  LET AuthMethods ==
        {AzureOauth, Capitalize(AzureOauth),
         <<"A", "Z", "U", "R", "E", "_", "O", "A", "U", "T", "H">>,
         <<"b", "a", "s", "i", "c">>, <<"o", "a", "u", "t", "h">>, <<>>}
  IN
    /\ messages = <<>>
    /\ now = 0
    /\ workers = DefaultWorkers
    /\ history = EmptyHistories(DefaultWorkers)
    /\ pc = "tools"
    /\ NoCall
    /\ settings = [OBSIDIAN_VAULT_PATH |-> "", MS_CLIENT_ID |-> "",
                   MS_AUTHORITY |-> "", JIRA_URL |-> <<>>,
                   JIRA_EMAIL |-> "", JIRA_TOKEN |-> ""]
    /\ MSAL_AVAILABLE \in BOOLEAN
    /\ vault = [exists |-> FALSE, writable |-> FALSE, daily_notes_dir |-> FALSE,
                notes |-> <<>>]
    /\ graph = [call |-> "none", limit |-> 0, flows |-> <<>>, queries |-> <<>>]
    /\ returned = Value("none", "")
    /\ environ \in [EMAIL_ACCOUNT : {{}, {"me@host"}},
                    AUTH_METHOD : {{}} \cup {{a} : a \in AuthMethods},
                    EMAIL_PASSWORD : {{}, {"secret"}},
                    AZURE_CLIENT_ID : {{}, {"id"}},
                    AZURE_TENANT_ID : {{}, {"tenant"}}]
    /\ client = [constructed |-> FALSE]

\* client = SecureEmailClient(); after an exception no new object exists and
\* the caller keeps the client it had
Construct(w) ==
    LET made == SecureEmailClient(environ, MSAL_AVAILABLE, w)
    IN  /\ pc = "tools"
        /\ IF made.raised = ""
           THEN /\ client' = made.self
                /\ returned' = Value("client", <<>>)
           ELSE /\ client' = client
                /\ returned' = Value("raised", <<made.raised>>)
        /\ graph' = [call |-> "SecureEmailClient", limit |-> 0, flows |-> <<>>,
                     queries |-> <<>>]
        /\ UNCHANGED <<swarm_vars, settings, MSAL_AVAILABLE, vault, environ>>

\* client.send_email(recipient, subject, body): True, or False after any
\* exception
ClientSendEmail(connects, accepts, sends) ==
    LET session == client_session(client, connects, accepts)
    IN  /\ pc = "tools"
        /\ client.constructed
        /\ graph' = [call |-> "send_email", limit |-> 0,
                     flows |-> session.flows, queries |-> <<>>]
        /\ returned' = Value("bool", <<session.open /\ sends>>)
        /\ UNCHANGED <<swarm_vars, settings, MSAL_AVAILABLE, vault, environ,
                       client>>

\* client.fetch_recent_emails(limit): the last messages of the folder, or []
\* after any exception
ClientFetchRecentEmails(limit, connects, accepts, mail_ids) ==
    LET session == client_session(client, connects, accepts)
        n == Len(mail_ids)
        first == IF limit > 0 THEN (IF limit >= n THEN 1 ELSE n - limit + 1)
                 ELSE (IF 0 - limit >= n THEN n + 1 ELSE 1 - limit)
        recent_ids == SubSeq(mail_ids, first, n)   \* mail_ids[-limit:]
    IN  /\ pc = "tools"
        /\ client.constructed
        /\ graph' = [call |-> "client.fetch_recent_emails", limit |-> limit,
                     flows |-> session.flows, queries |-> <<>>]
        /\ returned' = Value("list", IF session.open THEN recent_ids ELSE <<>>)
        /\ UNCHANGED <<swarm_vars, settings, MSAL_AVAILABLE, vault, environ,
                       client>>

NextClient ==
    \/ \E w \in SignIns : Construct(w)
    \/ \E connects, accepts, sends \in BOOLEAN :
            ClientSendEmail(connects, accepts, sends)
    \/ \E limit \in Limits, connects, accepts \in BOOLEAN,
          mail_ids \in {<<>>, <<"1", "2">>} :
            ClientFetchRecentEmails(limit, connects, accepts, mail_ids)

SpecClient == InitClient /\ [][NextClient]_vars

------------------------------------------------------------------------------
(* Properties *)

Min(S) == CHOOSE x \in S : \A y \in S : x <= y

\* the j-th smallest element of a set of numbers
Nth(S, j) == CHOOSE x \in S : Cardinality({y \in S : y < x}) = j - 1

StartsWith(t, prefix) ==
    Len(t) >= Len(prefix) /\ SubSeq(t, 1, Len(prefix)) = prefix

\* the lines of a text, each named by the place of its first character
NewlinePlaces(t) == {q \in 1..Len(t) : t[q] = "\n"}

LineStarts(t) == {1} \cup {q + 1 : q \in NewlinePlaces(t)}

LineAt(t, s) ==
    LET ends == {q \in NewlinePlaces(t) : q >= s}
    IN  SubSeq(t, s, IF ends = {} THEN Len(t) ELSE Min(ends) - 1)

LinesStarting(t, prefix) == {s \in LineStarts(t) : StartsWith(LineAt(t, s), prefix)}

ErrorUnknownAgent ==
    <<"E", "r", "r", "o", "r", ":", " ", "U", "n", "k", "n", "o", "w", "n", " ", "a", "g", "e",
      "n", "t">>

StepHeading ==
    <<"#", "#", "#", " ", "S", "t", "e", "p", " ">>

ResultHeading ==
    <<"*", "*", "R", "e", "s", "u", "l", "t", ":", "*", "*", " ">>

\* the trigger table of the classifier: the triggers of each row and what it emits
RowTable ==
    << [triggers |-> {TrigJira, TrigTask, TrigTicket},
        emits |-> [agent |-> NameResearcher, task |-> JiraTask]],
       [triggers |-> {TrigEmail, TrigOutlook, TrigMail},
        emits |-> [agent |-> NameResearcher, task |-> MailTask]],
       [triggers |-> {TrigNote, TrigObsidian, TrigDaily},
        emits |-> [agent |-> NameCoder, task |-> NoteTask]] >>

\* the rows one of whose triggers occurs in the text
RowsIn(text) ==
    {k \in 1..3 : \E t \in RowTable[k].triggers : Contains(text, t)}

\* every letter of the text in the other case
SwapCase(s) ==
    [k \in 1..Len(s) |-> IF LowerChar(s[k]) = s[k] THEN UpperChar(s[k])
                         ELSE LowerChar(s[k])]

\* the rows whose delegation a plan holds
PlanRows(plan) ==
    {k \in 1..3 : \E j \in 1..Len(plan) : plan[j] = RowTable[k].emits}

\* classify has just returned: the request and its plan are both in the state
Classified == pc = "send_task" /\ idx = 1

Registered(k) == delegations[k].agent \in DOMAIN workers

IsTaskMessage(msg, k) ==
    /\ msg["from"] = NameRouter
    /\ msg["to"] = delegations[k].agent
    /\ msg["type"] = "task"
    /\ msg["content"] = delegations[k].task

IsResultMessage(msg, k) ==
    /\ msg["from"] = delegations[k].agent
    /\ msg["to"] = NameRouter
    /\ msg["type"] = "result"
    /\ k <= Len(results)
    /\ msg["content"] = results[k]

\* C1: when the delegation loop of execute has finished, results has exactly
\* one entry per delegation of the plan, entry k being the result of
\* delegation k: the placeholder error text when the delegation's agent is
\* not registered, the worker's output on the delegation's task otherwise.
C1_OneResultPerDelegation ==
    pc \in {"synthesize", "returned"} =>
        /\ Len(results) = Len(delegations)
        /\ \A k \in 1..Len(delegations) :
              IF Registered(k)
              THEN /\ ~Raises(workers[delegations[k].agent])
                   /\ results[k] = WorkerExecute(workers[delegations[k].agent],
                                                 delegations[k].task, <<>>)
              ELSE results[k] =
                       ErrorUnknownAgent \o <<" ", "'">> \o delegations[k].agent
                           \o <<"'">>

\* a plan with an unregistered agent ran to the end of the loop
C1_Witness ==
    /\ pc = "synthesize"
    /\ Len(delegations) >= 2
    /\ Len(results) = Len(delegations)
    /\ \E k \in 1..Len(delegations) : ~Registered(k)
    /\ \E k \in 1..Len(delegations) : Registered(k)

\* C2: the dispatch of a delegation whose agent is not registered does not
\* raise and invokes no worker: the step appends one result, the text
\* "Error: Unknown agent '<name>'", builds no context, and the loop goes on
\* to the next delegation of the plan when there is one.
C2_UnknownAgentIsAResult ==
    [][ (pc = "lookup" /\ pc' # "lookup" /\ agent_name \notin DOMAIN workers) =>
            /\ pc' = (IF idx < Len(delegations) THEN "send_task" ELSE "synthesize")
            /\ idx' = idx + 1
            /\ Len(results') = Len(results) + 1
            /\ SubSeq(results', 1, Len(results)) = results
            /\ StartsWith(results'[Len(results')], ErrorUnknownAgent)
            /\ results'[Len(results')] =
                   ErrorUnknownAgent \o <<" ", "'">> \o agent_name \o <<"'">>
            /\ context' = context
            /\ messages' = messages ]_vars

\* a delegation to a registered agent ran after one to an unregistered agent
C2_Witness ==
    /\ pc = "synthesize"
    /\ \E k \in 1..(Len(delegations) - 1) :
          /\ ~Registered(k)
          /\ StartsWith(results[k], ErrorUnknownAgent)
          /\ Registered(k + 1)
          /\ results[k + 1] = CoderPrefix \o delegations[k + 1].task

\* C3: no exception escapes execute, whatever the registered workers do.
C3_NoExceptionEscapes == pc # "raised"

\* C4: a request in which none of the nine triggers occurs (letter case
\* ignored, as the classifier matches) gets exactly one delegation, to the
\* coder, whose task is the request as typed.
C4_FallbackIsLiteralRequest ==
    (Classified /\ RowsIn(Lower(user_task)) = {}) =>
        delegations = <<[agent |-> NameCoder, task |-> user_task]>>

\* a request with upper-case letters and no trigger was classified
C4_Witness ==
    /\ Classified
    /\ RowsIn(Lower(user_task)) = {}
    /\ user_task # Lower(user_task)
    /\ Len(delegations) = 1
    /\ delegations[1].task = user_task

\* C5: the plan holds one delegation per matching row of the table, in table
\* order, and the fallback delegation exactly when no row matches; it has
\* between one and three delegations.
C5_PlanInTableOrder ==
    Classified =>
        LET fired == RowsIn(Lower(user_task))
            fallback == [agent |-> NameCoder, task |-> user_task]
        IN  /\ Len(delegations) \in 1..3
            /\ fired # {} =>
                  /\ Len(delegations) = Cardinality(fired)
                  /\ \A j \in 1..Len(delegations) :
                        delegations[j] = RowTable[Nth(fired, j)].emits
            /\ (\E j \in 1..Len(delegations) : delegations[j] = fallback)
                  <=> fired = {}

\* a request naming the three rows in the reverse of the table order
C5_Witness ==
    /\ Classified
    /\ user_task = WordAll
    /\ Len(delegations) = 3

\* C6: a row fires exactly when one of its own triggers occurs in the
\* lower-cased request, whatever the other rows do, and requests that differ
\* in letter case only fire the same rows.
C6_CaseInsensitiveIndependentRows ==
    Classified =>
        /\ \A k \in 1..3 :
              k \in PlanRows(delegations) <=>
                  \E t \in RowTable[k].triggers : Contains(Lower(user_task), t)
        /\ \A other \in {Lower(user_task), Upper(user_task), Capitalize(user_task),
                           SwapCase(user_task)} :
              PlanRows(analyze_and_delegate(other)) = PlanRows(delegations)

\* a mixed-case request that fires two rows or more
C6_Witness ==
    /\ Classified
    /\ user_task # Lower(user_task)
    /\ user_task # Upper(user_task)
    /\ Cardinality(PlanRows(delegations)) >= 2

\* delegation k is over at log length n: its result message is the n-th message
DoneWithResultMessage(k, n) == n >= 1 /\ IsResultMessage(messages[n], k)

\* delegation k is over at log length n: as above or, for an unregistered
\* agent, its task message is the n-th message and its placeholder is in results
DoneAt(k, n) ==
    /\ n >= 1
    /\ IF Registered(k)
       THEN IsResultMessage(messages[n], k)
       ELSE /\ IsTaskMessage(messages[n], k)
            /\ k <= Len(results)
            /\ StartsWith(results[k], ErrorUnknownAgent)

\* C7 as stated: delegation idx begins (its task message is recorded, its
\* worker runs) only after the result message of delegation idx - 1 is the
\* last message of the log.
C7_ResultMessageBeforeNextTask ==
    /\ (pc = "send_task" /\ idx > 1) => DoneWithResultMessage(idx - 1, Len(messages))
    /\ pc \in {"lookup", "run", "send_result"} =>
          /\ Len(messages) >= 1
          /\ IsTaskMessage(messages[Len(messages)], idx)
          /\ idx > 1 => DoneWithResultMessage(idx - 1, Len(messages) - 1)

\* C7, amended: delegation idx begins only after delegation idx - 1 is over:
\* its result message is the last message of the log or, when its agent is
\* not registered, its placeholder result is recorded (no result message is
\* sent for such a step).
C7_OneDelegationAtATime ==
    /\ (pc = "send_task" /\ idx > 1) => DoneAt(idx - 1, Len(messages))
    /\ pc \in {"lookup", "run", "send_result"} =>
          /\ Len(messages) >= 1
          /\ IsTaskMessage(messages[Len(messages)], idx)
          /\ Len(results) = (IF pc = "send_result" THEN idx ELSE idx - 1)
          /\ idx > 1 => DoneAt(idx - 1, Len(messages) - 1)

\* the worker of the second delegation is about to run, after the first
\* delegation's result message
C7_Witness ==
    /\ pc = "run"
    /\ idx = 2
    /\ Registered(1)
    /\ Len(messages) >= 3
    /\ IsResultMessage(messages[Len(messages) - 1], 1)

Shown(result) ==
    IF Len(result) <= 500 THEN result
    ELSE [j \in 1..500 |-> result[j]] \o <<".", ".", ".">>

\* C9: the k-th "**Result:** " line of the report shows result k verbatim
\* when it has at most 500 characters, and its first 500 characters followed
\* by "..." when it has more.
C9_TruncationAt500 ==
    pc = "returned" =>
        LET pairs == IF Len(delegations) < Len(results)
                     THEN Len(delegations) ELSE Len(results)
            lines == LinesStarting(final_result, ResultHeading)
        IN  /\ Cardinality(lines) = pairs
            /\ \A k \in 1..pairs :
                  LineAt(final_result, Nth(lines, k)) =
                      ResultHeading \o Shown(results[k])

\* a report holding a result of 500 characters and one of 501
C9_Witness ==
    /\ pc = "returned"
    /\ Len(delegations) >= 2
    /\ \E k \in 1..Len(results) : Len(results[k]) = 500
    /\ \E k \in 1..Len(results) : Len(results[k]) = 501

\* the places of the log whose message is sent to or by the name
PlacesOf(name) ==
    {k \in 1..Len(messages) :
        messages[k]["to"] = name \/ messages[k]["from"] = name}

\* C10: get_context_for(name) returns the messages sent to or by name, each
\* once, in the order of the log, and nothing else.
C10_ContextIsTheSubsequence ==
    pc = "got_context" =>
        /\ Len(context) = Cardinality(PlacesOf(agent_name))
        /\ \A j \in 1..Len(context) :
              context[j] = messages[Nth(PlacesOf(agent_name), j)]

\* a context taken from a log holding a message the name sent to itself, a
\* message of others, and a message the name only received
C10_Witness ==
    /\ pc = "got_context"
    /\ Len(messages) = 3
    /\ Len(context) = 2
    /\ \E k \in 1..3 :
          messages[k]["to"] = agent_name /\ messages[k]["from"] = agent_name
    /\ \E k \in 1..3 :
          messages[k]["to"] = agent_name /\ messages[k]["from"] # agent_name

\* the log is the old log with one message appended at its end
Appended(old, new) ==
    /\ Len(new) = Len(old) + 1
    /\ SubSeq(new, 1, Len(old)) = old

\* C11: when clear has returned the log is empty, so get_context_for is empty
\* for every name and get_all_messages is empty; a clear made right after a
\* clear changes nothing; the first send after a clear leaves a log of that one
\* message, and a list a get call returns holds messages of the present log only
C11_ClearEmptiesTheLog ==
    /\ [](pc = "cleared" =>
            /\ messages = <<>>
            /\ \A name \in BusNames : get_context_for(messages, name) = <<>>
            /\ get_all_messages(messages) = <<>>)
    /\ [][/\ (pc = "cleared" /\ pc' = "cleared") => messages' = messages
          /\ (pc = "cleared" /\ pc' = "bus") => Len(messages') = 1
          /\ pc' \in {"got_context", "got_all"} =>
                \A j \in 1..Len(context') :
                    \E k \in 1..Len(messages') : context'[j] = messages'[k]
         ]_vars

\* clear has returned while the caller still holds the two messages a get call
\* returned before it
C11_Witness ==
    /\ pc = "cleared"
    /\ Len(context) = 2
    /\ messages = <<>>

\* C12: a get_context_for or get_all_messages call leaves the log as it is; a
\* call repeated with no send in between returns an equal list; the holder of
\* a returned list appending to it or popping from it leaves the log as it is
C12_GetCallsAreReadOnly ==
    [][/\ pc' \in {"got_context", "got_all", "held_list"} => messages' = messages
       /\ (pc = "got_context" /\ pc' = "got_context" /\ agent_name' = agent_name)
             => context' = context
       /\ (pc = "got_all" /\ pc' = "got_all") => context' = context
      ]_vars

\* the holder appended to the list get_all_messages returned for a log of two
\* messages
C12_Witness ==
    /\ pc = "held_list"
    /\ Len(messages) = 2
    /\ Len(context) = 3
    /\ SubSeq(context, 1, 2) = messages

\* C13: the log changes only by a message appended at its end or by being
\* emptied, so a logged message keeps its from, to, type, content and
\* timestamp whatever the holder of a returned list does
C13_LoggedMessagesNeverChange ==
    [][\/ messages' = messages
       \/ Appended(messages, messages')
       \/ messages' = <<>>
      ]_vars

\* C14: when reset has returned the log is empty and the history of the router
\* and of every worker is empty, and the context execute builds for a worker
\* holds messages of the present log only
C14_ResetIsolatesCalls ==
    /\ [](pc = "was_reset" =>
            /\ messages = <<>>
            /\ \A name \in DOMAIN history : history[name] = <<>>
            /\ \A name \in DOMAIN workers : get_context_for(messages, name) = <<>>)
    /\ [][(pc = "lookup" /\ pc' = "run") =>
            \A j \in 1..Len(context') :
                \E k \in 1..Len(messages') : context'[j] = messages'[k]
         ]_vars

\* reset has returned, later than the start of the clock
C14_Witness ==
    /\ pc = "was_reset"
    /\ now = MaxClock
    /\ messages = <<>>

\* C15: the workers dict has the keys coder, reviewer and researcher and maps
\* each to the agent it was constructed with, in every state
C15_RegistryIsFixed ==
    /\ DOMAIN workers = {NameCoder, NameReviewer, NameResearcher}
    /\ workers = DefaultWorkers

\* an execute call has returned its report, the log holding its two messages
\* only, and the workers dict has the three keys
C15_Witness ==
    /\ pc = "returned"
    /\ Len(messages) = 2
    /\ now = MaxClock
    /\ DOMAIN workers = {NameCoder, NameReviewer, NameResearcher}

\* the task text the claim gives for the tracker row
TaskIssueTracker ==
    <<"Q", "u", "e", "r", "y", " ", "i", "s", "s", "u", "e", " ", "t", "r", "a", "c", "k", "e",
      "r", " ", "f", "o", "r", " ", "c", "r", "i", "t", "i", "c", "a", "l", " ", "a", "l", "e",
      "r", "t", "s", " ", "a", "n", "d", " ", "p", "e", "n", "d", "i", "n", "g", " ", "t", "a",
      "s", "k", "s">>

\* the task text of the tracker row
TaskQueryJira ==
    <<"Q", "u", "e", "r", "y", " ", "J", "i", "r", "a", " ", "f", "o", "r", " ", "c", "r", "i",
      "t", "i", "c", "a", "l", " ", "a", "l", "e", "r", "t", "s", " ", "a", "n", "d", " ", "p",
      "e", "n", "d", "i", "n", "g", " ", "t", "a", "s", "k", "s">>

StepOneResearcher ==
    <<"#", "#", "#", " ", "S", "t", "e", "p", " ", "1", ":", " ", "R", "e", "s", "e", "a", "r",
      "c", "h", "e", "r">>

ResultThreeTasks ==
    <<"*", "*", "R", "e", "s", "u", "l", "t", ":", "*", "*", " ", "3", " ", "t", "a", "s", "k",
      "s", " ", "f", "o", "u", "n", "d">>

\* the text has a line equal to line
HasLine(text, line) ==
    \E k \in LineStarts(text) : LineAt(text, k) = line

C17_MailNoteEndToEnd ==
    LET mail == Delegation(NameResearcher, MailTask)
        note == Delegation(NameCoder, NoteTask)
        n == Len(messages)
    IN  /\ (Classified /\ user_task = RequestMailNote) =>
                delegations = <<mail, note>>
        /\ (pc = "synthesize" /\ delegations = <<mail, note>>) =>
                /\ final_result = <<>>
                /\ n >= 4
                /\ IsTaskMessage(messages[n - 3], 1)
                /\ IsResultMessage(messages[n - 2], 1)
                /\ IsTaskMessage(messages[n - 1], 2)
                /\ IsResultMessage(messages[n], 2)

\* the loop of the mail and note plan has ended after an earlier call left its
\* messages in the log, and the report is not built yet
C17_Witness ==
    /\ pc = "synthesize"
    /\ delegations =
        <<Delegation(NameResearcher, MailTask), Delegation(NameCoder, NoteTask)>>
    /\ Len(messages) = 6
    /\ final_result = <<>>

\* C18: a write_daily_note call that returns success for a date whose note
\* file exists leaves in the file exactly what it held, followed by the
\* separator and the new content
C18_PreviousContentIsAPrefix ==
    [][\A filename \in DOMAIN vault.notes :
            (returned'.kind # "error"
                /\ vault'.notes[filename] # vault.notes[filename]) =>
                \E content \in NoteContents :
                    vault'.notes[filename] =
                        vault.notes[filename] \o Separator(now) \o content
      ]_vars

\* C19: every $top a mail call sends to Graph is max(1, min(limit, 50)) of the
\* limit it was called with: within 1..50, and the limit itself when that is
\* within 1..50
C19_LimitIsClamped ==
    \A q \in 1..Len(graph.queries) :
        /\ graph.queries[q] \in 1..50
        /\ graph.limit < 1 => graph.queries[q] = 1
        /\ graph.limit > 50 => graph.queries[q] = 50
        /\ graph.limit \in 1..50 => graph.queries[q] = graph.limit

\* C20: after a mail call made with msal missing, MS_CLIENT_ID empty or
\* MS_AUTHORITY empty, no sign-in flow was started and no query was sent
C20_NoFlowWithoutConfiguration ==
    (/\ graph.call # "none"
     /\ (~MSAL_AVAILABLE \/ settings.MS_CLIENT_ID = ""
            \/ settings.MS_AUTHORITY = "")) =>
        /\ graph.flows = <<>>
        /\ graph.queries = <<>>

\* the request to Jira fails: a setting is missing, the transport fails, the
\* status is an error status, or the body is not JSON
JiraFailure(st, r) ==
    \/ st.JIRA_URL = <<>> \/ st.JIRA_EMAIL = "" \/ st.JIRA_TOKEN = ""
    \/ r.fault # "none"
    \/ r.status >= 400
    \/ r.body = "not_json"

\* C21: the Jira client never raises: whenever the request fails (a setting
\* missing, connection error, timeout, error status with a body of any
\* shape, body not JSON), get_all_my_issues returns the empty list and
\* search_jira_issues returns the JSON text of an {"error": ...} object
C21_JiraClientNeverRaises ==
    [][\A r \in Responses :
          /\ (GetAllMyIssues(r) /\ JiraFailure(settings, r)) =>
                returned' = Value("list", <<>>)
          /\ \A jql \in Queries :
                (SearchJiraIssues(jql, r) /\ JiraFailure(settings, r)) =>
                    /\ returned'.kind = "json"
                    /\ returned'.detail[1] = "error"]_vars

\* the client is in token mode: it holds an access token and no password,
\* and whatever send_email or fetch_recent_emails last sent to authenticate
\* was an XOAUTH2 string made of that token
TokenMode ==
    /\ client.access_token # {} /\ client.password = {}
    /\ graph.call \in {"send_email", "client.fetch_recent_emails"} =>
          \A i \in 1..Len(graph.flows) :
              /\ graph.flows[i].mechanism = "XOAUTH2"
              /\ graph.flows[i].credential[2] = client.email_account
              /\ graph.flows[i].credential[4] = client.access_token

\* the client is in password mode: it holds a password and no access token,
\* and whatever send_email or fetch_recent_emails last sent to authenticate
\* was a login with that password
PasswordMode ==
    /\ client.password # {} /\ client.access_token = {}
    /\ graph.call \in {"send_email", "client.fetch_recent_emails"} =>
          \A i \in 1..Len(graph.flows) :
              /\ graph.flows[i].mechanism = "LOGIN"
              /\ graph.flows[i].credential =
                    <<client.email_account, client.password>>

\* C22 as stated: a constructed client is in token mode when AUTH_METHOD is
\* azure_oauth and in password mode for any other AUTH_METHOD, and its calls
\* authenticate with the credential of that mode only
C22_ModeByAuthMethodAsWritten ==
    client.constructed =>
        IF environ.AUTH_METHOD = {AzureOauth} THEN TokenMode ELSE PasswordMode

\* C22: a constructed client holds either an access token and no password
\* (AUTH_METHOD is azure_oauth in any letter case) or a password and no
\* access token (AUTH_METHOD is anything else or not set), never both, and
\* send_email and fetch_recent_emails authenticate with the credential of
\* that mode only
C22_AuthModesExclusive ==
    client.constructed =>
        IF \E a \in environ.AUTH_METHOD : Lower(a) = AzureOauth
        THEN TokenMode ELSE PasswordMode

\* a client configured with AZURE_OAUTH in capitals has authenticated a
\* send_email with its token
C22_Witness ==
    /\ client.constructed
    /\ environ.AUTH_METHOD = {Upper(AzureOauth)}
    /\ graph.call = "send_email"
    /\ graph.flows # <<>>

\* C23: for a delegation to a registered worker execute appends the task
\* message (router to worker), then computes get_context_for(worker), then
\* calls worker.execute(task, context), then appends the result message
\* (worker to router) whose content is the returned text. So the context the
\* worker gets is not empty, its last element is the task message of the
\* current delegation, and no element of it is the result message of the
\* current step, which is appended at a later place of the log
C23_TaskContextRunResult ==
    /\ [](pc \in {"run", "send_result"} =>
            /\ agent_name \in DOMAIN workers
            /\ context # <<>>
            /\ context = get_context_for(messages, agent_name)
            /\ context[Len(context)] = messages[Len(messages)]
            /\ refs.places[Len(context)] = Len(messages)
            /\ IsTaskMessage(context[Len(context)], idx))
    /\ [][/\ (pc # "lookup" /\ pc' = "lookup") =>
                /\ pc = "send_task"
                /\ Appended(messages, messages')
                /\ IsTaskMessage(messages'[Len(messages')], idx)
          /\ (pc # "run" /\ pc' = "run") =>
                /\ pc = "lookup"
                /\ messages' = messages
                /\ context' = get_context_for(messages, agent_name)
          /\ (pc # "send_result" /\ pc' = "send_result") =>
                /\ pc = "run"
                /\ messages' = messages
                /\ context' = context
                /\ results' = Append(results,
                        WorkerExecute(workers[agent_name], delegations[idx].task,
                                      context))
          /\ (pc = "send_result" /\ pc' # "send_result") =>
                /\ Appended(messages, messages')
                /\ messages'[Len(messages')]["from"] = agent_name
                /\ messages'[Len(messages')]["to"] = NameRouter
                /\ messages'[Len(messages')]["type"] = "result"
                /\ messages'[Len(messages')]["content"] = results[idx]
                /\ \A j \in 1..Len(context) : refs.places[j] < Len(messages')
         ]_vars

\* a worker has run on a context that holds the messages of an earlier
\* delegation to it and, last, the task message of this one
C23_Witness ==
    /\ pc = "send_result"
    /\ Len(context) >= 3
    /\ IsTaskMessage(context[Len(context)], idx)
    /\ context[Len(context) - 1]["type"] = "result"

\* C24: execute never clears or shortens the log: every step other than a
\* reset leaves the log as it is or appends one message, so the log after an
\* execute call has the log before it as a prefix; and the context a worker
\* is given holds every message of the log sent to or by that worker, those
\* of earlier execute calls included when no reset came in between
C24_LogPersistsAcrossCalls ==
    /\ [][\/ messages' = messages
          \/ Appended(messages, messages')
          \/ (Idle /\ pc' = "was_reset" /\ messages' = <<>>)
         ]_vars
    /\ [](pc = "run" =>
            \A k \in 1..Len(messages) :
                (messages[k]["to"] = agent_name \/ messages[k]["from"] = agent_name)
                    => \E j \in 1..Len(context) :
                          /\ refs.places[j] = k
                          /\ context[j] = messages[k])

\* the first delegation of an execute call is about to run its worker, whose
\* context begins with the task and result messages of an earlier call
C24_Witness ==
    /\ pc = "run"
    /\ idx = 1
    /\ Len(context) = 3
    /\ context[1]["type"] = "task"
    /\ context[2]["type"] = "result"
    /\ context[2]["from"] = agent_name

\* the three lines of the section whose heading starts at place s of the report
SectionAt(report, s) ==
    LET heading == LineAt(report, s)
        t == s + Len(heading) + 1
        task == LineAt(report, t)
    IN  <<heading, task, LineAt(report, t + Len(task) + 1)>>

\* the section the report must hold for pair k: the heading "### Step k: "
\* with the capitalized agent, the task line and the result line
SectionOf(k, delegation, result) ==
    << StepHeading \o <<Digit[k + 1], ":", " ">> \o Capitalize(delegation.agent),
       <<"*", "*", "T", "a", "s", "k", ":", "*", "*", " ">> \o delegation.task,
       ResultHeading \o Shown(result) >>

\* C25: synthesize_results pairs delegations and results by position: for
\* lists of equal length the k-th section of the report is numbered k, names
\* the capitalized agent and the task of delegation k and shows result k, in
\* plan order, also when two delegations name the same agent or two results
\* are the same text
C25_PositionalPairing ==
    (pc = "returned" /\ Len(delegations) = Len(results)) =>
        LET steps == LinesStarting(final_result, StepHeading)
        IN  /\ Cardinality(steps) = Len(delegations)
            /\ \A k \in 1..Len(delegations) :
                  SectionAt(final_result, Nth(steps, k)) =
                      SectionOf(k, delegations[k], results[k])

\* a report of two sections for two delegations to the same agent whose
\* results differ
C25_Witness ==
    /\ pc = "returned"
    /\ Len(delegations) = 2
    /\ Len(results) = 2
    /\ delegations[1] = delegations[2]
    /\ results[1] # results[2]
    /\ Cardinality(LinesStarting(final_result, StepHeading)) = 2

\* C28: synthesize_results called with lists of different lengths returns a
\* report all the same: it holds one section for each of the first
\* min(len(delegations), len(results)) pairs and nothing of the longer list's
\* remaining entries, and with nothing to pair (both lists empty) it is the
\* header alone
C28_UnequalLengthsPairShortest ==
    pc = "returned" =>
        LET pairs == Min({Len(delegations), Len(results)})
            steps == LinesStarting(final_result, StepHeading)
            header == <<"#", "#", " ", "T", "a", "s", "k", " ", "S", "u", "m",
                        "m", "a", "r", "y", "\n">>
        IN  /\ Cardinality(steps) = pairs
            /\ Cardinality(LinesStarting(final_result, ResultHeading)) = pairs
            /\ \A k \in 1..pairs :
                  SectionAt(final_result, Nth(steps, k)) =
                      SectionOf(k, delegations[k], results[k])
            /\ Cardinality(LineStarts(final_result)) = 2 + 4 * pairs
            /\ pairs = 0 => final_result = header

\* a report of one section made from two delegations and one result
C28_Witness ==
    /\ pc = "returned"
    /\ Len(delegations) = 2
    /\ Len(results) = 1
    /\ Cardinality(LinesStarting(final_result, StepHeading)) = 1

\* a message without its timestamp
Untimed(msg) ==
    [from |-> msg["from"], to |-> msg["to"], type |-> msg["type"],
     content |-> msg["content"]]

RECURSIVE Exchange(_)
\* the messages of delegations 1..k of the present call, in order: the task
\* message of each and, for a registered agent, its result message
Exchange(k) ==
    IF k = 0 THEN <<>>
    ELSE Exchange(k - 1)
            \o <<[from |-> NameRouter, to |-> delegations[k].agent,
                  type |-> "task", content |-> delegations[k].task]>>
            \o (IF Registered(k)
                THEN <<[from |-> delegations[k].agent, to |-> NameRouter,
                        type |-> "result", content |-> results[k]]>>
                ELSE <<>>)

\* C26: the log execute produces. A call that runs a plan of k delegations,
\* u of them to unregistered agents, appends 2k - u messages: only the step
\* at line 255 and the step at line 275 append, one message each, the loop
\* counter moving on after each delegation, and when the loop is over the
\* last 2k - u messages of the log are the task message of each delegation
\* followed, for a registered agent, by its result message. Every logged
\* message has exactly one of from / to equal to "router"; a task message is
\* from the router, a result message to the router and comes right after the
\* task message to the agent that sent it; so get_context_for("router") is
\* the whole log
C26_ShapeOfTheLog ==
    /\ [](/\ \A n \in 1..Len(messages) :
                /\ (messages[n]["from"] = NameRouter) # (messages[n]["to"] = NameRouter)
                /\ messages[n]["type"] \in {"task", "result"}
                /\ messages[n]["type"] = "task" => messages[n]["from"] = NameRouter
                /\ messages[n]["type"] = "result" =>
                      /\ messages[n]["to"] = NameRouter
                      /\ n > 1
                      /\ messages[n - 1]["type"] = "task"
                      /\ messages[n - 1]["to"] = messages[n]["from"]
          /\ get_context_for(messages, NameRouter) = messages)
    /\ [](pc \in {"synthesize", "returned"} =>
            LET k == Len(delegations)
                u == Cardinality({j \in 1..k : ~Registered(j)})
                n == Len(messages)
            IN  /\ idx = k + 1
                /\ Len(Exchange(k)) = 2 * k - u
                /\ n >= 2 * k - u
                /\ [j \in 1..(2 * k - u) |->
                        Untimed(messages[n - (2 * k - u) + j])] = Exchange(k))
    /\ [][/\ (pc = "send_task" /\ pc' # "send_task") =>
                Appended(messages, messages') /\ idx' = idx
          /\ (pc = "send_result" /\ pc' # "send_result") =>
                Appended(messages, messages') /\ idx' = idx + 1
          /\ (pc = "lookup" /\ pc' # "lookup") =>
                /\ messages' = messages
                /\ idx' = IF agent_name \in DOMAIN workers THEN idx ELSE idx + 1
          /\ pc \in {"classify", "run", "synthesize", "returned", "raised"} =>
                messages' = messages
          /\ (pc = "classify" /\ pc' # "classify") => idx' = 1
          /\ pc = "run" => idx' = idx
         ]_vars

\* a call with two delegations, one of them to an unregistered agent, has
\* added its three messages to a log that held messages of an earlier call
C26_Witness ==
    /\ pc = "returned"
    /\ Len(delegations) = 2
    /\ Cardinality({j \in 1..2 : ~Registered(j)}) = 1
    /\ Len(messages) >= 5

\* the report of a plan run by the shipped workers on empty contexts
ReportOf(plan) ==
    synthesize_results(plan,
        [k \in 1..Len(plan) |->
            WorkerExecute(DefaultWorkers[plan[k].agent], plan[k].task, <<>>)])

\* C27: the report execute returns depends on the request only: the plan is
\* analyze_and_delegate of the request and stays as it is until the report,
\* and the report is the one the shipped workers give for that plan on empty
\* contexts, whatever the log holds, whatever the time is and however many
\* execute and reset calls came before; the history of the router and of
\* every worker stays empty
C27_ReportDependsOnRequestOnly ==
    /\ [](/\ \A name \in DOMAIN history : history[name] = <<>>
          /\ Classified => delegations = analyze_and_delegate(user_task)
          /\ pc = "returned" => final_result = ReportOf(delegations))
    /\ [][(pc \in {"send_task", "lookup", "run", "send_result", "synthesize"})
            => (delegations' = delegations)]_vars

\* the report of a plan of two delegations was returned by an orchestrator
\* whose log held messages of earlier calls, later than the start of the clock
C27_Witness ==
    /\ pc = "returned"
    /\ Len(delegations) = 2
    /\ Len(messages) > 4
    /\ now = MaxClock
    /\ final_result = ReportOf(delegations)

\* the place of the call of the method among the calls the mail call made on
\* the msal application, 0 when it was not called
CalledAt(method) ==
    IF \E i \in 1..Len(graph.flows) : graph.flows[i].method = method
    THEN CHOOSE i \in 1..Len(graph.flows) : graph.flows[i].method = method
    ELSE 0

\* what the call of the method gave, "not called" when it was not called
Gave(method) ==
    IF CalledAt(method) = 0 THEN "not called"
    ELSE graph.flows[CalledAt(method)].gave

YearMonthDay(date) ==
    /\ Len(date) = 10
    /\ \A i \in {1, 2, 3, 4, 6, 7, 9, 10} :
          date[i] \in {"0", "1", "2", "3", "4", "5", "6", "7", "8", "9"}
    /\ date[5] = "-" /\ date[8] = "-"

\* C30 as stated: a write_daily_note call made with no vault path configured,
\* with a date that is not of the form YYYY-MM-DD, or with a vault path that
\* does not exist returns an error and leaves the vault as it was
C30_MalformedDateIsAnError ==
    [][\A content \in NoteContents, date \in DateInputs :
          (/\ WriteDailyNote(content, date)
           /\ \/ settings.OBSIDIAN_VAULT_PATH = ""
              \/ date # <<>> /\ ~YearMonthDay(date)
              \/ ~vault.exists)
          => /\ returned'.kind = "error"
             /\ vault' = vault
      ]_vars

==============================================================================
